---------------------------- MODULE Spec2Model ----------------------------
(***************************************************************************)
(* A model of the synchronization core of the kyoto light client:          *)
(*   - the filter-header quorum chain (src/src/filters/cfheader_chain.rs)  *)
(*   - the node coordinator            (src/src/node/node.rs)              *)
(***************************************************************************)
EXTENDS Integers, Sequences, FiniteSets, TLC

(***************************************************************************)
(* Bounds of the model.                                                    *)
(***************************************************************************)
\* number of peer ids (nonces) that may send filter-header batches
NumPeers == 3
\* longest filter-header batch a peer sends
MaxBatch == 1
\* number of calls made on the filter-header chain in one behaviour
MaxCalls == 3

\* number of headers the header chain may hold above the anchor
MaxHeaders == 1
\* number of peer connections dispatched in one behaviour
MaxDials == 2
\* number of iterations of the coordinator's main loop in one behaviour
MaxIters == 5
\* number of broadcast jobs that may be pending
MaxJobs == 2
\* number of addresses the peer store may hold
MaxStored == 1
\* number of headers the persisted chain may hold above the anchor
MaxRows == 2

\* The height of the anchor checkpoint the chains are built on.
AnchorHeight == 190000
\* The fewest addresses a DNS bootstrap accepts.
MIN_PEERS == 10
\* The most addresses a DNS bootstrap keeps of one seed.
MAX_PEERS == 256
\* The handlers that may be in progress at once when their locks are examined.
MaxTasks == 2

PeerIds == 1..NumPeers
\* The block hashes a stop-hash request or a joined header may carry.
BlockHashes == {"B"}

\* The two distinguishable filter headers "H" and "X".
FilterHeaders == {"H", "X"}

\* A filter header commits to its filter hash (and to the previous header):
\* two entries with the same header carry the same filter hash.
\* the filter header that recomputing the filter of a block yields
RecomputedFilterHeader == "H"

FilterHashOf(fh) == <<"hash", fh>>

\* One element of InternalChain = Vec<(FilterHeader, FilterHash)>.
Entry(fh) == <<fh, FilterHashOf(fh)>>

RECURSIVE SeqsUpTo(_, _)
SeqsUpTo(S, n) ==
    IF n = 0 THEN {<<>>}
    ELSE LET shorter == SeqsUpTo(S, n - 1)
         IN shorter \cup {Append(s, x) : s \in {t \in shorter : Len(t) = n - 1}, x \in S}

\* CFHeaderBatch::inner(): the (FilterHeader, FilterHash) pairs of one message.
Batches == SeqsUpTo({Entry(fh) : fh \in FilterHeaders}, MaxBatch)

\* Option<T>: None is the empty set and Some(x) the set of x alone.
None == {}
Some(x) == {x}
The(o) == CHOOSE x \in o : TRUE

\* no error
NoError == "NoError"

VARIABLES
    \* CFHeaderChain
    header_chain,           \* Vec<(FilterHeader, FilterHash)>
    merged_queue,           \* HashMap<u32, InternalChain>
    block_to_hash,          \* HashMap<BlockHash, FilterHash>
    prev_stophash_request,  \* Option<BlockHash>
    quorum_required,        \* usize
    \* the last operation made (with the phase it found) and what it returned
    call,
    ret,
    ncalls,                 \* number of calls made so far
    \* Node
    state,                  \* NodeState
    required_peers,         \* usize
    white_list,             \* Option<Vec<(IpAddr, u16)>>: the entries left
    tx_broadcaster,         \* Broadcaster: the pending broadcast policies
    pc,                     \* where Node::run is: "tick", "select" or "returned"
    result,                 \* what Node::run returned
    iters,                  \* iterations of the main loop started, counted up to MaxIters
    \* Chain
    chain_height,           \* height of the tip of the header chain
    best_known_height,      \* Option<u32>
    flushed_height,         \* height up to which headers were flushed to disk
    filter_height,          \* height of the last filter checked
    block_queue,            \* heights of the blocks whose filter matched
    requested,              \* the queued blocks already requested
    scripts,                \* HashSet<ScriptBuf>
    \* PeerMap and PeerManager
    peers,                  \* nonce -> [status, services, height]
    next_nonce,             \* the nonce of the next connection
    peer_store,             \* number of addresses in the peer store
    banned,                 \* the nonces of the peers banned in the peer store
    \* what the last step sent to peers and to the client
    sent,                   \* set of <<nonce, MainThreadMessage>>
    events,                 \* set of NodeMessage data events
    \* the honest peer of SpecHonest
    outq,                   \* requests it has not answered yet
    inbox,                  \* its messages the coordinator has not received yet
    \* SqliteHeaderDb and the header chain that is persisted in it
    db_headers,             \* the rows of the table headers, by height
    chain_headers,          \* BTreeMap<u32, Header> of the chain in memory
    pending,                \* what of the chain in memory is not persisted yet:
                            \* nothing, the headers grown from a height, or
                            \* the headers replaced from a height
    \* the locks of the coordinator
    tasks                   \* per handler in progress: the guards it takes and
                            \* drops, and how many of these steps it has made

cfVars == <<header_chain, merged_queue, block_to_hash, prev_stophash_request,
            quorum_required, call, ret, ncalls>>

\* the chain's variables a step of Node::run can leave alone
cfRest == <<header_chain, merged_queue, block_to_hash, prev_stophash_request,
            quorum_required, ret, ncalls, db_headers, chain_headers, pending, tasks>>

runVars == <<required_peers, white_list, tx_broadcaster, result, iters>>

nodeVars == <<state, pc, runVars>>

chainVars == <<chain_height, best_known_height, flushed_height, filter_height,
               block_queue, requested, scripts>>

peerVars == <<peers, next_nonce, peer_store, banned>>

outVars == <<sent, events>>

honestVars == <<outq, inbox>>

dbVars == <<db_headers, chain_headers, pending>>

vars == <<cfVars, nodeVars, chainVars, peerVars, outVars, honestVars, dbVars, tasks>>

EmptyMap == [x \in {} |-> {}]

\* HashMap::insert
Insert(map, k, v) == [x \in (DOMAIN map) \cup {k} |-> IF x = k THEN v ELSE map[x]]

-----------------------------------------------------------------------------
(***************************************************************************)
(* CFHeaderChain                                                           *)
(***************************************************************************)

\* CFHeaderChain::height
height(hc) == AnchorHeight + Len(hc)

\* CFHeaderChain::prev_header
prev_header(hc) == IF Len(hc) = 0 THEN None ELSE Some(hc[Len(hc)][1])

\* CFHeaderChain::adjusted_height: checked_sub(anchor.height + 1)
adjusted_height(h) == IF h >= AnchorHeight + 1 THEN Some(h - (AnchorHeight + 1)) ELSE None

\* CFHeaderChain::filter_hash_at_height
filter_hash_at_height(hc, h) ==
    LET a == adjusted_height(h)
    IN IF a = None THEN None
       ELSE IF The(a) + 1 <= Len(hc) THEN Some(hc[The(a) + 1][2]) ELSE None

\* The 0-based indices at which the reference batch and another staged batch
\* carry different filter headers; indices the other batch lacks are skipped.
Mismatches(reference, peer) ==
    {index \in 0..(Len(reference) - 1) :
        /\ index + 1 <= Len(peer)
        /\ reference[index + 1][1] # peer[index + 1][1]}

Min(S) == CHOOSE x \in S : \A y \in S : x <= y

NoReturn == [kind |-> "None"]
AddedToQueue == [kind |-> "AddedToQueue"]
Extended == [kind |-> "Extended"]
Conflict(h) == [kind |-> "Conflict", height |-> h]

\* append_or_conflict replacing the committed chain by the reference batch
append_or_conflict_replacing(hc, mq) ==
    {[ret |-> Extended, header_chain |-> mq[r], merged_queue |-> EmptyMap] : r \in DOMAIN mq}

\* CFHeaderChain::append_or_conflict.  The HashMap yields the staged batches in
\* an arbitrary order: the first is the reference, the others are compared to it
\* one peer after the other, and the first compared peer that differs from the
\* reference decides the conflict index.  The result is the set of outcomes
\* (return value, committed chain, staging) over all iteration orders.
append_or_conflict(hc, mq) ==
    UNION {
        LET reference_peer == mq[r]
            differing == {p \in (DOMAIN mq) \ {r} : Mismatches(reference_peer, mq[p]) # {}}
        IN IF differing = {}
           THEN {[ret |-> Extended,
                  header_chain |-> hc \o reference_peer,
                  merged_queue |-> EmptyMap]}
           ELSE {[ret |-> Conflict(height(hc) + Min(Mismatches(reference_peer, mq[p])) + 1),
                  header_chain |-> hc,
                  merged_queue |-> mq] : p \in differing}
        : r \in DOMAIN mq}

\* try_merge comparing one staged batch too early
try_merge_eager(hc, mq, quorum) ==
    IF Cardinality(DOMAIN mq) + 1 >= quorum
    THEN append_or_conflict(hc, mq)
    ELSE {[ret |-> AddedToQueue, header_chain |-> hc, merged_queue |-> mq]}

\* try_merge with a strict comparison against the quorum
try_merge_strict(hc, mq, quorum) ==
    IF Cardinality(DOMAIN mq) > quorum
    THEN append_or_conflict(hc, mq)
    ELSE {[ret |-> AddedToQueue, header_chain |-> hc, merged_queue |-> mq]}

\* CFHeaderChain::try_merge
try_merge(hc, mq, quorum) ==
    IF Cardinality(DOMAIN mq) >= quorum
    THEN append_or_conflict(hc, mq)
    ELSE {[ret |-> AddedToQueue, header_chain |-> hc, merged_queue |-> mq]}

\* CFHeaderChain::append
append(hc, mq, quorum, peer_id, cf_headers) ==
    try_merge(hc, Insert(mq, peer_id, cf_headers), quorum)

\* CFHeaderChain::join: zip the block headers with the committed filter hashes
joined(b2h, headers, hc) ==
    LET n == IF Len(headers) <= Len(hc) THEN Len(headers) ELSE Len(hc)
        zipped == {headers[i] : i \in 1..n}
        \* a later pair with the same block hash overwrites an earlier one
        last(b) == CHOOSE i \in 1..n : headers[i] = b /\ \A j \in 1..n : headers[j] = b => j <= i
    IN [b \in (DOMAIN b2h) \cup zipped |-> IF b \in zipped THEN hc[last(b)][2] ELSE b2h[b]]

\* The header store and the chain in memory while they are not exercised.
DbIdle == db_headers = EmptyMap /\ chain_headers = EmptyMap /\ pending = [kind |-> "none"]

\* The coordinator's variables while only the quorum chain is exercised.
NodeIdle ==
    /\ state = "Behind" /\ required_peers = quorum_required /\ white_list = 0
    /\ tx_broadcaster = <<>> /\ pc = "idle" /\ result = None /\ iters = 0
    /\ chain_height = AnchorHeight /\ best_known_height = None
    /\ flushed_height = AnchorHeight /\ filter_height = AnchorHeight
    /\ block_queue = <<>> /\ requested = {} /\ scripts = {}
    /\ peers = EmptyMap /\ next_nonce = 1 /\ peer_store = 0 /\ banned = {}
    /\ sent = {} /\ events = {} /\ outq = <<>> /\ inbox = <<>>
    /\ tasks = EmptyMap

restVars == <<nodeVars, chainVars, peerVars, outVars, honestVars, dbVars, tasks>>

\* CFHeaderChain::new
CFInit ==
    /\ header_chain = <<>>
    /\ merged_queue = EmptyMap
    /\ block_to_hash = EmptyMap
    /\ prev_stophash_request = None
    /\ quorum_required \in 1..NumPeers
    /\ call = [op |-> "new"]
    /\ ret = NoReturn
    /\ ncalls = 0
    /\ NodeIdle
    /\ DbIdle

\* one more call on the chain, while the behaviour is within its bound
Called == ncalls < MaxCalls /\ ncalls' = ncalls + 1

CFAppend ==
    /\ Called
    /\ \E peer_id \in PeerIds, cf_headers \in Batches :
        \E out \in append(header_chain, merged_queue, quorum_required, peer_id, cf_headers) :
            /\ header_chain' = out.header_chain
            /\ merged_queue' = out.merged_queue
            /\ ret' = out.ret
            /\ call' = [op |-> "append", peer_id |-> peer_id, cf_headers |-> cf_headers]
            /\ UNCHANGED <<block_to_hash, prev_stophash_request, quorum_required, restVars>>

CFSetLastStopHash ==
    /\ Called
    /\ \E stop_hash \in BlockHashes :
        /\ prev_stophash_request' = Some(stop_hash)
        /\ call' = [op |-> "set_last_stop_hash"]
        /\ ret' = NoReturn
        /\ UNCHANGED <<header_chain, merged_queue, block_to_hash, quorum_required, restVars>>

CFClearQueue ==
    /\ Called
    /\ merged_queue' = EmptyMap
    /\ call' = [op |-> "clear_queue"]
    /\ ret' = NoReturn
    /\ UNCHANGED <<header_chain, block_to_hash, prev_stophash_request, quorum_required, restVars>>

CFJoin ==
    /\ Called
    /\ \E headers \in SeqsUpTo(BlockHashes, MaxBatch) :
        /\ block_to_hash' = joined(block_to_hash, headers, header_chain)
        /\ call' = [op |-> "join"]
        /\ ret' = NoReturn
        /\ UNCHANGED <<header_chain, merged_queue, prev_stophash_request, quorum_required, restVars>>

CFNext == CFAppend \/ CFSetLastStopHash \/ CFClearQueue \/ CFJoin

SpecCF == CFInit /\ [][CFNext]_vars

-----------------------------------------------------------------------------
(***************************************************************************)
(* Chain: the header chain, the filter-header chain and the filter scanner *)
(* behind the coordinator's chain lock.                                    *)
(***************************************************************************)

Heights == AnchorHeight..(AnchorHeight + MaxHeaders)

Max(S) == CHOOSE x \in S : \A y \in S : x >= y

\* Chain::is_synced: the tip has reached the best height a peer advertised
is_synced(h, best) == best # None /\ h >= The(best)

\* Chain::is_cf_headers_synced: a filter header is committed for every header
is_cf_headers_synced(h, hc) == height(hc) >= h

\* Chain::is_filters_synced: the filter cursor has reached the tip
is_filters_synced(h, fh) == fh >= h

\* Chain::block_queue_empty
block_queue_empty(queue) == queue = <<>>

\* Chain::set_best_known_height: the belief of the network tip only grows
set_best_known_height(best, h) == IF best = None \/ h > The(best) THEN Some(h) ELSE best

\* Chain::locators, identified by the height of the tip they start from
locators(h) == h

\* Chain::next_cf_header_message: the filter headers after the committed ones,
\* up to the tip; the stop hash is remembered as the last request's
next_cf_header_message(h, hc) ==
    [type |-> "GetFilterHeaders", start |-> height(hc) + 1, stop |-> h]

\* Chain::next_filter_message: the filter after the cursor
next_filter_message(fh) == [type |-> "GetFilters", start |-> fh + 1]

GetHeaders(h) == [type |-> "GetHeaders", locators |-> locators(h), stop_hash |-> None]
GetBlock(h) == [type |-> "GetBlock", locator |-> h]
Disconnect == [type |-> "Disconnect"]
BroadcastTx == [type |-> "BroadcastTx"]

HeaderSyncErrors ==
    {"InvalidBits", "InvalidHash", "DoesNotLink", "CheckpointMismatch",
     "LessWorkFork", "PreCheckpointFork"}

\* Chain::sync_chain on a batch of n headers that extend the tip, or on a batch
\* the validation rejects with error err
sync_chain(h, m) ==
    IF m.n = 0 THEN [err |-> "EmptyMessage", chain_height |-> h]
    ELSE IF m.err # NoError THEN [err |-> m.err, chain_height |-> h]
    ELSE [err |-> NoError, chain_height |-> h + m.n]

\* the block hashes of the headers above the anchor, identified by height
HeaderSlice(h) == [i \in 1..(h - AnchorHeight) |-> AnchorHeight + i]

\* Chain::sync_cf_headers: the outcomes of feeding a batch to the quorum chain
sync_cf_headers(h, hc, mq, b2h, quorum, peer_id, m) ==
    IF m.err \/ height(hc) + Len(m.batch) > h
    THEN {[result |-> "Err", header_chain |-> hc, merged_queue |-> mq, block_to_hash |-> b2h]}
    ELSE {CASE out.ret.kind = "AddedToQueue" ->
                [result |-> "AddedToQueue", header_chain |-> out.header_chain,
                 merged_queue |-> out.merged_queue, block_to_hash |-> b2h]
            [] out.ret.kind = "Extended" ->
                [result |-> "ReadyForNext", header_chain |-> out.header_chain,
                 merged_queue |-> out.merged_queue,
                 block_to_hash |-> joined(b2h, HeaderSlice(h), out.header_chain)]
            [] out.ret.kind = "Conflict" ->
                [result |-> "Dispute", header_chain |-> out.header_chain,
                 merged_queue |-> out.merged_queue, block_to_hash |-> b2h]
          : out \in append(hc, mq, quorum, peer_id, m.batch)}

\* Chain::sync_filter: check the filter after the cursor against the committed
\* filter hash, queue its block when a script matches, and ask for the next one
sync_filter(h, hc, fh, queue, m) ==
    IF ~m.valid \/ filter_hash_at_height(hc, fh + 1) = None
    THEN [err |-> TRUE, filter_height |-> fh, block_queue |-> queue, next |-> None]
    ELSE [err |-> FALSE,
          filter_height |-> fh + 1,
          block_queue |-> IF m.matches /\ \A i \in 1..Len(queue) : queue[i] # fh + 1
                          THEN Append(queue, fh + 1) ELSE queue,
          next |-> IF is_filters_synced(h, fh + 1) THEN None
                   ELSE Some(next_filter_message(fh + 1))]

Remove(queue, x) == SelectSeq(queue, LAMBDA y : y # x)

\* Chain::next_block: the first queued block not requested yet
next_block(queue, req) ==
    LET waiting == SelectSeq(queue, LAMBDA y : y \notin req)
    IN IF waiting = <<>> THEN None ELSE Some(Head(waiting))

-----------------------------------------------------------------------------
(***************************************************************************)
(* PeerMap                                                                 *)
(***************************************************************************)

Flags == {"NETWORK", "COMPACT_FILTERS"}

\* PeerMap::live: the connections that have not terminated
Live(ps) == {n \in DOMAIN ps : ps[n].status # "finished"}
live(ps) == Cardinality(Live(ps))

\* PeerMap::clean: forget the terminated connections
clean(ps) == [n \in Live(ps) |-> ps[n]]

\* PeerMap::dispatch: a new connection under the next nonce
dispatch(ps, nonce) ==
    Insert(ps, nonce, [status |-> "live", services |-> {}, height |-> None])

\* PeerMap::best_height().unwrap_or(&0)
best_height(ps) ==
    LET claimed == UNION {ps[n].height : n \in DOMAIN ps}
    IN IF claimed = {} THEN 0 ELSE Max(claimed)

\* PeerMap::set_offset, set_services and set_height
set_version(ps, nonce, v) ==
    IF nonce \in DOMAIN ps
    THEN [ps EXCEPT ![nonce].services = v.service_flags, ![nonce].height = Some(v.height)]
    ELSE ps

\* PeerMap::add_one_height, once per announced block
add_heights(ps, nonce, n) ==
    IF nonce \in DOMAIN ps /\ ps[nonce].height # None
    THEN [ps EXCEPT ![nonce].height = Some(The(@) + n)]
    ELSE ps

\* PeerMap::send_message
send_message(ps, nonce, msg) == IF nonce \in Live(ps) THEN {<<nonce, msg>>} ELSE {}

\* PeerMap::broadcast
broadcast(ps, msg) == {<<n, msg>> : n \in Live(ps)}

\* PeerMap::send_random: the sets of messages it may send
send_random(ps, msg) == IF Live(ps) = {} THEN {{}} ELSE {{<<n, msg>>} : n \in Live(ps)}

\* A connection that is sent Disconnect is told to terminate.
Told(ps, sends) ==
    [n \in DOMAIN ps |->
        IF <<n, Disconnect>> \in sends /\ ps[n].status = "live"
        THEN [ps[n] EXCEPT !.status = "told"] ELSE ps[n]]

-----------------------------------------------------------------------------
(***************************************************************************)
(* Node: the coordinator                                                   *)
(***************************************************************************)

Phases == <<"Behind", "HeadersSynced", "FilterHeadersSynced", "FiltersSynced",
            "TransactionsSynced">>

\* the position of a phase in the order of NodeState
Rank(p) == CHOOSE i \in 1..Len(Phases) : Phases[i] = p

Synced(h) == [type |-> "Synced", height |-> h, tip |-> h]

\* Node::new
NodeInit ==
    /\ state = "Behind"
    /\ required_peers \in 1..MaxDials
    /\ quorum_required = required_peers
    /\ white_list = 1
    /\ tx_broadcaster = <<>>
    /\ pc = "tick" /\ result = None /\ iters = 0
    /\ chain_height \in Heights
    /\ best_known_height = None
    /\ flushed_height = chain_height
    /\ filter_height = AnchorHeight
    /\ block_queue = <<>> /\ requested = {}
    /\ scripts = {"s1"}
    /\ peers = EmptyMap /\ next_nonce = 1
    /\ peer_store = 0 /\ banned = {}
    /\ header_chain = <<>> /\ merged_queue = EmptyMap /\ block_to_hash = EmptyMap
    /\ prev_stophash_request = None
    /\ call = [op |-> "new", state |-> state] /\ ret = NoReturn /\ ncalls = 0
    /\ sent = {} /\ events = {}
    /\ outq = <<>> /\ inbox = <<>>
    /\ DbIdle
    /\ tasks = EmptyMap

\* advance_state promoting the phase whatever the chain says
advance_state_eager ==
    [state |-> IF state = "TransactionsSynced" THEN state ELSE Phases[Rank(state) + 1],
     flushed |-> IF state = "Behind" THEN chain_height ELSE flushed_height,
     events |-> IF state = "FiltersSynced" THEN {Synced(chain_height)} ELSE {}]

\* advance_state promoting from Behind past HeadersSynced
advance_state_skipping ==
    CASE state = "Behind" ->
            IF is_synced(chain_height, best_known_height)
            THEN [state |-> "FilterHeadersSynced", flushed |-> chain_height, events |-> {}]
            ELSE [state |-> state, flushed |-> flushed_height, events |-> {}]
      [] state = "HeadersSynced" ->
            IF is_cf_headers_synced(chain_height, header_chain)
            THEN [state |-> "FilterHeadersSynced", flushed |-> flushed_height, events |-> {}]
            ELSE [state |-> state, flushed |-> flushed_height, events |-> {}]
      [] state = "FilterHeadersSynced" ->
            IF is_filters_synced(chain_height, filter_height)
            THEN [state |-> "FiltersSynced", flushed |-> flushed_height, events |-> {}]
            ELSE [state |-> state, flushed |-> flushed_height, events |-> {}]
      [] state = "FiltersSynced" ->
            IF block_queue_empty(block_queue)
            THEN [state |-> "TransactionsSynced", flushed |-> flushed_height,
                  events |-> {Synced(chain_height)}]
            ELSE [state |-> state, flushed |-> flushed_height, events |-> {}]
      [] state = "TransactionsSynced" ->
            [state |-> state, flushed |-> flushed_height, events |-> {}]

\* advance_state leaving FiltersSynced without looking at the block queue
advance_state_unchecked ==
    CASE state = "Behind" ->
            IF is_synced(chain_height, best_known_height)
            THEN [state |-> "HeadersSynced", flushed |-> chain_height, events |-> {}]
            ELSE [state |-> state, flushed |-> flushed_height, events |-> {}]
      [] state = "HeadersSynced" ->
            IF is_cf_headers_synced(chain_height, header_chain)
            THEN [state |-> "FilterHeadersSynced", flushed |-> flushed_height, events |-> {}]
            ELSE [state |-> state, flushed |-> flushed_height, events |-> {}]
      [] state = "FilterHeadersSynced" ->
            IF is_filters_synced(chain_height, filter_height)
            THEN [state |-> "FiltersSynced", flushed |-> flushed_height, events |-> {}]
            ELSE [state |-> state, flushed |-> flushed_height, events |-> {}]
      [] state = "FiltersSynced" ->
            [state |-> "TransactionsSynced", flushed |-> flushed_height,
             events |-> {Synced(chain_height)}]
      [] state = "TransactionsSynced" ->
            [state |-> state, flushed |-> flushed_height, events |-> {}]

\* Node::advance_state: the phase, the flushed height and the events after it
advance_state ==
    CASE state = "Behind" ->
            IF is_synced(chain_height, best_known_height)
            THEN [state |-> "HeadersSynced", flushed |-> chain_height, events |-> {}]
            ELSE [state |-> state, flushed |-> flushed_height, events |-> {}]
      [] state = "HeadersSynced" ->
            IF is_cf_headers_synced(chain_height, header_chain)
            THEN [state |-> "FilterHeadersSynced", flushed |-> flushed_height, events |-> {}]
            ELSE [state |-> state, flushed |-> flushed_height, events |-> {}]
      [] state = "FilterHeadersSynced" ->
            IF is_filters_synced(chain_height, filter_height)
            THEN [state |-> "FiltersSynced", flushed |-> flushed_height, events |-> {}]
            ELSE [state |-> state, flushed |-> flushed_height, events |-> {}]
      [] state = "FiltersSynced" ->
            IF block_queue_empty(block_queue)
            THEN [state |-> "TransactionsSynced", flushed |-> flushed_height,
                  events |-> {Synced(chain_height)}]
            ELSE [state |-> state, flushed |-> flushed_height, events |-> {}]
      [] state = "TransactionsSynced" ->
            [state |-> state, flushed |-> flushed_height, events |-> {}]

\* next_required_peers asking for no peer at all
next_required_peers_none(st) == 0

\* next_required_peers asking for required_peers in every phase
next_required_peers_fixed(st) == required_peers

\* Node::next_required_peers
next_required_peers(st) == IF st = "Behind" THEN 1 ELSE required_peers

\* next_peer taking a peer from the white list without removing it
next_peer_reusing ==
    IF white_list > 0
    THEN {[kind |-> "dial", white_list |-> white_list, peer_store |-> peer_store]}
    ELSE (IF peer_store > 0
          THEN {[kind |-> "dial", white_list |-> white_list, peer_store |-> peer_store]}
          ELSE {[kind |-> "dial", white_list |-> white_list, peer_store |-> MaxStored],
                [kind |-> "err", err |-> "DnsFailure"]})
         \cup {[kind |-> "err", err |-> "LoadError"]}

\* Node::next_peer: a peer to dial, from the white list, else from the peer
\* store, else from a DNS bootstrap of an empty store; or the error run returns
next_peer ==
    IF white_list > 0
    THEN {[kind |-> "dial", white_list |-> white_list - 1, peer_store |-> peer_store]}
    ELSE (IF peer_store > 0
          THEN {[kind |-> "dial", white_list |-> white_list, peer_store |-> peer_store]}
          ELSE {[kind |-> "dial", white_list |-> white_list, peer_store |-> MaxStored],
                [kind |-> "err", err |-> "DnsFailure"]})
         \cup {[kind |-> "err", err |-> "LoadError"]}

\* pop_block_queue asking for a queued block in every phase
pop_block_queue_any_phase(st) == next_block(block_queue, requested)

\* Node::pop_block_queue: the block to request in this iteration, if any
pop_block_queue(st) ==
    IF st = "FiltersSynced" THEN next_block(block_queue, requested) ELSE None

\* an iteration dispatching a pending job whatever the number of live peers
Tick_dispatching_early ==
    /\ pc = "tick"
    /\ iters' = IF iters < MaxIters THEN iters + 1 ELSE iters
    /\ LET adv == advance_state
           cleaned == clean(peers)
           need == live(cleaned) < next_required_peers(adv.state)
           block == pop_block_queue(adv.state)
       IN /\ state' = adv.state
          /\ flushed_height' = adv.flushed
          /\ events' = adv.events
          /\ \E np \in (IF need THEN next_peer ELSE {[kind |-> "none"]}) :
                IF np.kind = "err"
                THEN /\ pc' = "returned"
                     /\ result' = Some([ok |-> FALSE, err |-> np.err])
                     /\ peers' = cleaned
                     /\ sent' = {}
                     /\ UNCHANGED <<white_list, peer_store, next_nonce, requested,
                                    tx_broadcaster>>
                ELSE /\ pc' = "select"
                     /\ result' = result
                     /\ IF np.kind = "dial"
                        THEN /\ next_nonce <= MaxDials
                             /\ next_nonce' = next_nonce + 1
                             /\ white_list' = np.white_list
                             /\ peer_store' = np.peer_store
                        ELSE UNCHANGED <<next_nonce, white_list, peer_store>>
                     /\ LET dialed == IF np.kind = "dial"
                                      THEN dispatch(cleaned, next_nonce) ELSE cleaned
                            job == tx_broadcaster # <<>>
                        IN /\ requested' = requested \cup block
                           /\ tx_broadcaster' = IF job THEN Tail(tx_broadcaster)
                                                ELSE tx_broadcaster
                           /\ \E blocks \in (IF block = None THEN {{}}
                                             ELSE send_random(dialed, GetBlock(The(block)))),
                                 txs \in (IF ~job THEN {{}}
                                          ELSE IF Head(tx_broadcaster) = "AllPeers"
                                          THEN {broadcast(dialed, BroadcastTx)}
                                          ELSE send_random(dialed, BroadcastTx)) :
                                 /\ sent' = blocks \cup txs
                                 /\ peers' = dialed
    /\ call' = [op |-> "advance_state", state |-> state]
    /\ UNCHANGED <<required_peers, chain_height, best_known_height, filter_height,
                   block_queue, scripts, banned, cfRest>>

\* The first part of an iteration of Node::run, up to the select.
Tick ==
    /\ pc = "tick"
    /\ iters' = IF iters < MaxIters THEN iters + 1 ELSE iters
    /\ LET adv == advance_state
           cleaned == clean(peers)
           need == live(cleaned) < next_required_peers(adv.state)
           block == pop_block_queue(adv.state)
       IN /\ state' = adv.state
          /\ flushed_height' = adv.flushed
          /\ events' = adv.events
          /\ \E np \in (IF need THEN next_peer ELSE {[kind |-> "none"]}) :
                IF np.kind = "err"
                THEN /\ pc' = "returned"
                     /\ result' = Some([ok |-> FALSE, err |-> np.err])
                     /\ peers' = cleaned
                     /\ sent' = {}
                     /\ UNCHANGED <<white_list, peer_store, next_nonce, requested,
                                    tx_broadcaster>>
                ELSE /\ pc' = "select"
                     /\ result' = result
                     /\ IF np.kind = "dial"
                        THEN /\ next_nonce <= MaxDials
                             /\ next_nonce' = next_nonce + 1
                             /\ white_list' = np.white_list
                             /\ peer_store' = np.peer_store
                        ELSE UNCHANGED <<next_nonce, white_list, peer_store>>
                     /\ LET dialed == IF np.kind = "dial"
                                      THEN dispatch(cleaned, next_nonce) ELSE cleaned
                            job == live(dialed) >= required_peers /\ tx_broadcaster # <<>>
                        IN /\ requested' = requested \cup block
                           /\ tx_broadcaster' = IF job THEN Tail(tx_broadcaster)
                                                ELSE tx_broadcaster
                           /\ \E blocks \in (IF block = None THEN {{}}
                                             ELSE send_random(dialed, GetBlock(The(block)))),
                                 txs \in (IF ~job THEN {{}}
                                          ELSE IF Head(tx_broadcaster) = "AllPeers"
                                          THEN {broadcast(dialed, BroadcastTx)}
                                          ELSE send_random(dialed, BroadcastTx)) :
                                 /\ sent' = blocks \cup txs
                                 /\ peers' = dialed
    /\ call' = [op |-> "advance_state", state |-> state]
    /\ UNCHANGED <<required_peers, chain_height, best_known_height, filter_height,
                   block_queue, scripts, banned, cfRest>>

\* handle_version disconnecting only a peer that lacks both services
HandleVersion_lenient(nonce, version) ==
    LET known == set_version(peers, nonce, version)
        best == best_height(known)
        lacking == state # "Behind" /\ version.service_flags \cap Flags = {}
        response == IF lacking THEN Disconnect ELSE GetHeaders(chain_height)
    IN /\ best_known_height' =
              IF ~lacking /\ chain_height <= best
              THEN set_best_known_height(best_known_height, best)
              ELSE best_known_height
       /\ sent' = send_message(known, nonce, response)
       /\ peers' = Told(known, sent')
       /\ events' = {}
       /\ pc' = "tick"
       /\ call' = [op |-> "handle_version", state |-> state]
       /\ UNCHANGED <<state, runVars, chain_height, flushed_height, filter_height,
                      block_queue, requested, scripts, next_nonce, peer_store, banned, cfRest>>

\* Node::handle_version and the Version arm of Node::run
HandleVersion(nonce, version) ==
    LET known == set_version(peers, nonce, version)
        best == best_height(known)
        lacking == state # "Behind" /\ ~(Flags \subseteq version.service_flags)
        response == IF lacking THEN Disconnect ELSE GetHeaders(chain_height)
    IN /\ best_known_height' =
              IF ~lacking /\ chain_height <= best
              THEN set_best_known_height(best_known_height, best)
              ELSE best_known_height
       /\ sent' = send_message(known, nonce, response)
       /\ peers' = Told(known, sent')
       /\ events' = {}
       /\ pc' = "tick"
       /\ call' = [op |-> "handle_version", state |-> state]
       /\ UNCHANGED <<state, runVars, chain_height, flushed_height, filter_height,
                      block_queue, requested, scripts, next_nonce, peer_store, banned, cfRest>>

\* Node::handle_new_addrs and the Addr arm of Node::run
HandleAddr(n) ==
    /\ peer_store' = IF peer_store + n <= MaxStored THEN peer_store + n ELSE MaxStored
    /\ sent' = {} /\ events' = {}
    /\ pc' = "tick"
    /\ call' = [op |-> "handle_new_addrs", state |-> state]
    /\ UNCHANGED <<state, runVars, chainVars, peers, next_nonce, banned, cfRest>>

\* the Headers arm of run sending a given response, on a chain of height h
HeadersArm(nonce, h, response) ==
    /\ h \in Heights
    /\ chain_height' = h
    /\ prev_stophash_request' =
           IF response # None /\ The(response).type = "GetFilterHeaders"
           THEN Some(The(response).stop) ELSE prev_stophash_request
    /\ sent' = IF response = None THEN {} ELSE send_message(peers, nonce, The(response))
    /\ peers' = Told(peers, sent')
    /\ events' = {}
    /\ pc' = "tick"
    /\ call' = [op |-> "handle_headers", state |-> state]
    /\ UNCHANGED <<state, runVars, best_known_height, flushed_height, filter_height,
                   block_queue, requested, scripts, next_nonce, peer_store, banned,
                   header_chain, merged_queue, block_to_hash, quorum_required,
                   ret, ncalls, dbVars, tasks>>

\* the response of handle_headers to a batch the chain accepted
accepted_response(h) ==
    IF ~is_synced(h, best_known_height) THEN Some(GetHeaders(h))
    ELSE IF ~is_cf_headers_synced(h, header_chain)
    THEN Some(next_cf_header_message(h, header_chain))
    ELSE IF ~is_filters_synced(h, filter_height)
    THEN Some(next_filter_message(filter_height))
    ELSE None

\* the response of handle_headers to an empty batch
empty_response(h) ==
    IF ~is_synced(h, best_known_height) THEN Some(Disconnect)
    ELSE IF ~is_cf_headers_synced(h, header_chain)
    THEN Some(next_cf_header_message(h, header_chain))
    ELSE None

\* handle_headers treating an empty batch as an accepted one
HandleHeaders_empty_accepted(nonce, headers) ==
    LET synced == sync_chain(chain_height, headers)
        h == synced.chain_height
    IN HeadersArm(nonce, h,
           IF synced.err \in {"EmptyMessage", NoError} THEN accepted_response(h)
           ELSE Some(Disconnect))

\* handle_headers disconnecting on every empty batch
HandleHeaders_empty_disconnects(nonce, headers) ==
    LET synced == sync_chain(chain_height, headers)
        h == synced.chain_height
    IN HeadersArm(nonce, h,
           IF synced.err = NoError THEN accepted_response(h) ELSE Some(Disconnect))

\* handle_headers asking for filter headers before the headers are synced
HandleHeaders_filter_headers_first(nonce, headers) ==
    LET synced == sync_chain(chain_height, headers)
        h == synced.chain_height
    IN HeadersArm(nonce, h,
           IF synced.err = "EmptyMessage" THEN empty_response(h)
           ELSE IF synced.err # NoError THEN Some(Disconnect)
           ELSE IF ~is_cf_headers_synced(h, header_chain)
           THEN Some(next_cf_header_message(h, header_chain))
           ELSE IF ~is_synced(h, best_known_height) THEN Some(GetHeaders(h))
           ELSE IF ~is_filters_synced(h, filter_height)
           THEN Some(next_filter_message(filter_height))
           ELSE None)

\* Node::handle_headers and the Headers arm of Node::run
HandleHeaders(nonce, headers) ==
    LET synced == sync_chain(chain_height, headers)
        h == synced.chain_height
        response ==
            IF synced.err = "EmptyMessage"
            THEN IF ~is_synced(h, best_known_height) THEN Some(Disconnect)
                 ELSE IF ~is_cf_headers_synced(h, header_chain)
                 THEN Some(next_cf_header_message(h, header_chain))
                 ELSE None
            ELSE IF synced.err # NoError THEN Some(Disconnect)
            ELSE IF ~is_synced(h, best_known_height) THEN Some(GetHeaders(h))
            ELSE IF ~is_cf_headers_synced(h, header_chain)
            THEN Some(next_cf_header_message(h, header_chain))
            ELSE IF ~is_filters_synced(h, filter_height)
            THEN Some(next_filter_message(filter_height))
            ELSE None
    IN /\ h \in Heights
       /\ chain_height' = h
       /\ prev_stophash_request' =
              IF response # None /\ The(response).type = "GetFilterHeaders"
              THEN Some(The(response).stop) ELSE prev_stophash_request
       /\ sent' = IF response = None THEN {} ELSE send_message(peers, nonce, The(response))
       /\ peers' = Told(peers, sent')
       /\ events' = {}
       /\ pc' = "tick"
       /\ call' = [op |-> "handle_headers", state |-> state]
       /\ UNCHANGED <<state, runVars, best_known_height, flushed_height, filter_height,
                      block_queue, requested, scripts, next_nonce, peer_store, banned,
                      header_chain, merged_queue, block_to_hash, quorum_required,
                      ret, ncalls, dbVars, tasks>>

\* handle_cf_headers answering the sender only
HandleCFHeaders_to_sender(peer_id, cf_headers) ==
    \E out \in sync_cf_headers(chain_height, header_chain, merged_queue, block_to_hash,
                               quorum_required, peer_id, cf_headers) :
        LET response ==
                CASE out.result = "AddedToQueue" -> None
                  [] out.result = "ReadyForNext" ->
                        IF ~is_cf_headers_synced(chain_height, out.header_chain)
                        THEN Some(next_cf_header_message(chain_height, out.header_chain))
                        ELSE IF ~is_filters_synced(chain_height, filter_height)
                        THEN Some(next_filter_message(filter_height))
                        ELSE None
                  [] out.result = "Dispute" -> Some(Disconnect)
                  [] out.result = "Err" -> Some(Disconnect)
        IN /\ header_chain' = out.header_chain
           /\ merged_queue' = out.merged_queue
           /\ block_to_hash' = out.block_to_hash
           /\ ret' = [kind |-> out.result]
           /\ prev_stophash_request' =
                  IF response # None /\ The(response).type = "GetFilterHeaders"
                  THEN Some(The(response).stop) ELSE prev_stophash_request
           /\ sent' = IF response = None THEN {} ELSE send_message(peers, peer_id, The(response))
           /\ peers' = Told(peers, sent')
           /\ events' = {}
           /\ pc' = "tick"
           /\ call' = [op |-> "handle_cf_headers", state |-> state]
           /\ UNCHANGED <<state, runVars, chainVars, next_nonce, peer_store, banned,
                          quorum_required, ncalls, dbVars, tasks>>

\* Node::handle_cf_headers and the FilterHeaders arm of Node::run
HandleCFHeaders(peer_id, cf_headers) ==
    \E out \in sync_cf_headers(chain_height, header_chain, merged_queue, block_to_hash,
                               quorum_required, peer_id, cf_headers) :
        LET response ==
                CASE out.result = "AddedToQueue" -> None
                  [] out.result = "ReadyForNext" ->
                        IF ~is_cf_headers_synced(chain_height, out.header_chain)
                        THEN Some(next_cf_header_message(chain_height, out.header_chain))
                        ELSE IF ~is_filters_synced(chain_height, filter_height)
                        THEN Some(next_filter_message(filter_height))
                        ELSE None
                  [] out.result = "Dispute" -> Some(Disconnect)
                  [] out.result = "Err" -> Some(Disconnect)
        IN /\ header_chain' = out.header_chain
           /\ merged_queue' = out.merged_queue
           /\ block_to_hash' = out.block_to_hash
           /\ ret' = [kind |-> out.result]
           /\ prev_stophash_request' =
                  IF response # None /\ The(response).type = "GetFilterHeaders"
                  THEN Some(The(response).stop) ELSE prev_stophash_request
           /\ sent' = IF response = None THEN {} ELSE broadcast(peers, The(response))
           /\ peers' = Told(peers, sent')
           /\ events' = {}
           /\ pc' = "tick"
           /\ call' = [op |-> "handle_cf_headers", state |-> state]
           /\ UNCHANGED <<state, runVars, chainVars, next_nonce, peer_store, banned,
                          quorum_required, ncalls, dbVars, tasks>>

\* handle_filter answering every peer
HandleFilter_broadcasting(peer_id, filter) ==
    LET out == sync_filter(chain_height, header_chain, filter_height, block_queue, filter)
        response == IF out.err THEN Some(Disconnect) ELSE out.next
    IN /\ filter_height' = out.filter_height
       /\ block_queue' = out.block_queue
       /\ sent' = IF response = None THEN {} ELSE broadcast(peers, The(response))
       /\ peers' = Told(peers, sent')
       /\ events' = {}
       /\ pc' = "tick"
       /\ call' = [op |-> "handle_filter", state |-> state]
       /\ UNCHANGED <<state, runVars, chain_height, best_known_height, flushed_height,
                      requested, scripts, next_nonce, peer_store, banned, cfRest>>

\* Node::handle_filter and the Filter arm of Node::run
HandleFilter(peer_id, filter) ==
    LET out == sync_filter(chain_height, header_chain, filter_height, block_queue, filter)
        response == IF out.err THEN Some(Disconnect) ELSE out.next
    IN /\ filter_height' = out.filter_height
       /\ block_queue' = out.block_queue
       /\ sent' = IF response = None THEN {} ELSE send_message(peers, peer_id, The(response))
       /\ peers' = Told(peers, sent')
       /\ events' = {}
       /\ pc' = "tick"
       /\ call' = [op |-> "handle_filter", state |-> state]
       /\ UNCHANGED <<state, runVars, chain_height, best_known_height, flushed_height,
                      requested, scripts, next_nonce, peer_store, banned, cfRest>>

\* Node::handle_block and the Block arm of Node::run
HandleBlock(block) ==
    LET scanning == state = "FiltersSynced"
        response == IF state = "Behind" \/ (scanning /\ ~block.valid)
                    THEN Some(Disconnect) ELSE None
    IN /\ block_queue' = IF scanning /\ block.valid
                         THEN Remove(block_queue, block.height) ELSE block_queue
       /\ requested' = IF scanning /\ block.valid
                       THEN requested \ {block.height} ELSE requested
       /\ sent' = IF response = None THEN {} ELSE broadcast(peers, The(response))
       /\ peers' = Told(peers, sent')
       /\ events' = {}
       /\ pc' = "tick"
       /\ call' = [op |-> "handle_block", state |-> state]
       /\ UNCHANGED <<state, runVars, chain_height, best_known_height, flushed_height,
                      filter_height, scripts, next_nonce, peer_store, banned, cfRest>>

\* handle_inventory_blocks falling behind without asking for headers
HandleNewBlocks_silent(nonce, n) ==
    LET counted == add_heights(peers, nonce, n)
        best == best_height(counted)
        behind == state = "Behind"
    IN /\ state' = "Behind"
       /\ best_known_height' =
              IF ~behind /\ chain_height <= best
              THEN set_best_known_height(best_known_height, best)
              ELSE best_known_height
       /\ sent' = {}
       /\ peers' = counted
       /\ events' = {}
       /\ pc' = "tick"
       /\ call' = [op |-> "handle_inventory_blocks", state |-> state]
       /\ UNCHANGED <<runVars, chain_height, flushed_height, filter_height, block_queue,
                      requested, scripts, next_nonce, peer_store, banned, cfRest>>

\* Node::handle_inventory_blocks and the NewBlocks arm of Node::run
HandleNewBlocks(nonce, n) ==
    LET counted == add_heights(peers, nonce, n)
        best == best_height(counted)
        behind == state = "Behind"
    IN /\ state' = "Behind"
       /\ best_known_height' =
              IF ~behind /\ chain_height <= best
              THEN set_best_known_height(best_known_height, best)
              ELSE best_known_height
       /\ sent' = IF behind THEN {} ELSE broadcast(counted, GetHeaders(chain_height))
       /\ peers' = counted
       /\ events' = {}
       /\ pc' = "tick"
       /\ call' = [op |-> "handle_inventory_blocks", state |-> state]
       /\ UNCHANGED <<runVars, chain_height, flushed_height, filter_height, block_queue,
                      requested, scripts, next_nonce, peer_store, banned, cfRest>>

\* The Disconnect arm of Node::run
HandleDisconnect ==
    /\ peers' = clean(peers)
    /\ sent' = {} /\ events' = {}
    /\ pc' = "tick"
    /\ call' = [op |-> "clean", state |-> state]
    /\ UNCHANGED <<state, runVars, chainVars, next_nonce, peer_store, banned, cfRest>>

\* The arms of Node::run that only continue: another peer message, a closed
\* channel, or the one second timeout
HandleNothing ==
    /\ sent' = {} /\ events' = {}
    /\ pc' = "tick"
    /\ call' = [op |-> "continue", state |-> state]
    /\ UNCHANGED <<state, runVars, chainVars, peerVars, cfRest>>

\* ClientMessage::Shutdown
Shutdown ==
    /\ pc' = "returned"
    /\ result' = Some([ok |-> TRUE, err |-> NoError])
    /\ sent' = {} /\ events' = {}
    /\ call' = [op |-> "shutdown", state |-> state]
    /\ UNCHANGED <<state, required_peers, white_list, tx_broadcaster, iters,
                   chainVars, peerVars, cfRest>>

\* ClientMessage::Broadcast
Broadcast(policy) ==
    /\ Len(tx_broadcaster) < MaxJobs
    /\ tx_broadcaster' = Append(tx_broadcaster, policy)
    /\ sent' = {} /\ events' = {}
    /\ pc' = "tick"
    /\ call' = [op |-> "broadcast", state |-> state]
    /\ UNCHANGED <<state, required_peers, white_list, result, iters,
                   chainVars, peerVars, cfRest>>

\* Node::add_scripts
AddScripts(new) ==
    /\ scripts' = scripts \cup new
    /\ sent' = {} /\ events' = {}
    /\ pc' = "tick"
    /\ call' = [op |-> "add_scripts", state |-> state]
    /\ UNCHANGED <<state, runVars, chain_height, best_known_height, flushed_height,
                   filter_height, block_queue, requested, peerVars, cfRest>>

\* rescan asking for the filters again without going back a phase
Rescan_keeping_phase ==
    LET early == state \in {"Behind", "HeadersSynced"}
    IN /\ state' = state
       /\ filter_height' = IF early THEN filter_height ELSE AnchorHeight
       /\ sent' = IF early THEN {}
                  ELSE broadcast(peers, next_filter_message(AnchorHeight))
       /\ events' = {}
       /\ pc' = "tick"
       /\ call' = [op |-> "rescan", state |-> state]
       /\ UNCHANGED <<runVars, chain_height, best_known_height, flushed_height,
                      block_queue, requested, scripts, peerVars, cfRest>>

\* Node::rescan and the Rescan arm of Node::run
Rescan ==
    LET early == state \in {"Behind", "HeadersSynced"}
    IN /\ state' = IF early THEN state ELSE "FilterHeadersSynced"
       /\ filter_height' = IF early THEN filter_height ELSE AnchorHeight
       /\ sent' = IF early THEN {}
                  ELSE broadcast(peers, next_filter_message(AnchorHeight))
       /\ events' = {}
       /\ pc' = "tick"
       /\ call' = [op |-> "rescan", state |-> state]
       /\ UNCHANGED <<runVars, chain_height, best_known_height, flushed_height,
                      block_queue, requested, scripts, peerVars, cfRest>>

\* A connection terminates: its socket closed, or it was told to disconnect.
Terminate(nonce) ==
    /\ peers[nonce].status # "finished"
    /\ peers' = [peers EXCEPT ![nonce].status = "finished"]
    /\ UNCHANGED <<nodeVars, chainVars, next_nonce, peer_store, banned, outVars, cfVars, dbVars, tasks>>

-----------------------------------------------------------------------------
(***************************************************************************)
(* The coordinator among peers that may send anything                      *)
(***************************************************************************)

\* a peer either offers compact filters or it does not
Versions == [type : {"Version"}, service_flags : {Flags, {"NETWORK"}}, height : Heights]

HeadersMessages ==
    [type : {"Headers"}, n : 0..MaxHeaders, err : {NoError}]
    \cup [type : {"Headers"}, n : {1}, err : HeaderSyncErrors]

CFHeadersMessages == [type : {"FilterHeaders"}, batch : Batches, err : BOOLEAN]

Filters == [type : {"Filter"}, valid : BOOLEAN, matches : BOOLEAN]

Blocks == [type : {"Block"}, height : Heights \ {AnchorHeight}, valid : BOOLEAN]

Policies == {"AllPeers", "RandomPeer"}

Selecting == pc = "select"

RecvVersion ==
    /\ Selecting
    /\ \E nonce \in DOMAIN peers, version \in Versions : HandleVersion(nonce, version)
    /\ UNCHANGED honestVars

RecvAddr ==
    /\ Selecting
    /\ \E n \in 1..MaxStored : HandleAddr(n)
    /\ UNCHANGED honestVars

RecvHeaders ==
    /\ Selecting
    /\ \E nonce \in DOMAIN peers, headers \in HeadersMessages : HandleHeaders(nonce, headers)
    /\ UNCHANGED honestVars

RecvFilterHeaders ==
    /\ Selecting
    /\ \E nonce \in DOMAIN peers, cf_headers \in CFHeadersMessages :
           HandleCFHeaders(nonce, cf_headers)
    /\ UNCHANGED honestVars

RecvFilter ==
    /\ Selecting
    /\ \E nonce \in DOMAIN peers, filter \in Filters : HandleFilter(nonce, filter)
    /\ UNCHANGED honestVars

RecvBlock ==
    /\ Selecting
    /\ \E block \in Blocks : HandleBlock(block)
    /\ UNCHANGED honestVars

RecvNewBlocks ==
    /\ Selecting
    /\ \E nonce \in DOMAIN peers, n \in 1..MaxHeaders :
           /\ peers[nonce].height # None => The(peers[nonce].height) + n \in Heights
           /\ HandleNewBlocks(nonce, n)
    /\ UNCHANGED honestVars

RecvDisconnect ==
    /\ Selecting
    /\ HandleDisconnect
    /\ UNCHANGED honestVars

RecvNothing ==
    /\ Selecting
    /\ HandleNothing
    /\ UNCHANGED honestVars

ClientShutdown == Selecting /\ Shutdown /\ UNCHANGED honestVars

ClientBroadcast ==
    /\ Selecting
    /\ \E policy \in Policies : Broadcast(policy)
    /\ UNCHANGED honestVars

ClientAddScripts ==
    /\ Selecting
    /\ \E new \in {{"s1"}, {"s2"}} : AddScripts(new)
    /\ UNCHANGED honestVars

ClientRescan == Selecting /\ Rescan /\ UNCHANGED honestVars

RunTick == iters < MaxIters /\ Tick /\ UNCHANGED honestVars

PeerTerminates ==
    /\ Selecting
    /\ \E nonce \in DOMAIN peers : Terminate(nonce)
    /\ UNCHANGED honestVars

Next ==
    \/ RunTick
    \/ RecvVersion \/ RecvAddr \/ RecvHeaders \/ RecvFilterHeaders \/ RecvFilter
    \/ RecvBlock \/ RecvNewBlocks \/ RecvDisconnect \/ RecvNothing
    \/ ClientShutdown \/ ClientBroadcast \/ ClientAddScripts \/ ClientRescan
    \/ PeerTerminates

Spec == NodeInit /\ [][Next]_vars

-----------------------------------------------------------------------------
(***************************************************************************)
(* The coordinator with one whitelisted peer that answers every request    *)
(* honestly (the setting of example/memory.rs)                             *)
(***************************************************************************)

\* the nonce of the connection to the whitelisted peer
HonestPeer == 1

\* the height of the honest peer's chain
HonestTip == AnchorHeight + MaxHeaders

RECURSIVE AsSeq(_)
AsSeq(S) == IF S = {} THEN <<>>
            ELSE LET x == CHOOSE y \in S : TRUE IN <<x>> \o AsSeq(S \ {x})

\* the messages among sends that reach the honest peer
Requests(sends) == AsSeq({m[2] : m \in {x \in sends : x[1] = HonestPeer}})

\* the peer's side of the version handshake
HonestVersion == [type |-> "Version", service_flags |-> Flags, height |-> HonestTip]

\* the sequences of messages an honest peer may answer a request with
HonestAnswers(request) ==
    CASE request.type = "GetHeaders" ->
            {<<[type |-> "Headers",
                n |-> IF HonestTip > request.locators
                      THEN HonestTip - request.locators ELSE 0,
                err |-> NoError]>>}
      [] request.type = "GetFilterHeaders" ->
            {<<[type |-> "FilterHeaders",
                batch |-> [i \in 1..(request.stop - request.start + 1) |->
                              Entry(RecomputedFilterHeader)],
                err |-> FALSE]>>}
      [] request.type = "GetFilters" ->
            IF request.start > HonestTip THEN {<<>>}
            ELSE {<<[type |-> "Filter", valid |-> TRUE, matches |-> m]>> : m \in BOOLEAN}
      [] request.type = "GetBlock" ->
            {<<[type |-> "Block", height |-> request.locator, valid |-> TRUE]>>}
      [] OTHER -> {<<>>}

HonestInit == NodeInit /\ required_peers = 1

\* an iteration of run up to the select; the peer dialed from the white list
\* starts the handshake
HonestTick ==
    /\ Tick
    /\ inbox' = IF next_nonce = HonestPeer /\ next_nonce' # next_nonce
                THEN Append(inbox, HonestVersion) ELSE inbox
    /\ outq' = outq \o Requests(sent')

\* the select receives the peer's oldest message
Delivering(type) ==
    /\ Selecting
    /\ inbox # <<>>
    /\ Head(inbox).type = type

\* the message is consumed and the peer is sent the response
Noted ==
    /\ inbox' = Tail(inbox)
    /\ outq' = outq \o Requests(sent')

HonestRecvVersion ==
    Delivering("Version") /\ HandleVersion(HonestPeer, Head(inbox)) /\ Noted

HonestRecvHeaders ==
    Delivering("Headers") /\ HandleHeaders(HonestPeer, Head(inbox)) /\ Noted

HonestRecvFilterHeaders ==
    Delivering("FilterHeaders") /\ HandleCFHeaders(HonestPeer, Head(inbox)) /\ Noted

HonestRecvFilter ==
    Delivering("Filter") /\ HandleFilter(HonestPeer, Head(inbox)) /\ Noted

HonestRecvBlock == Delivering("Block") /\ HandleBlock(Head(inbox)) /\ Noted

\* the one second timeout of the select, when no message is waiting
HonestTimeout ==
    /\ Selecting
    /\ inbox = <<>>
    /\ HandleNothing
    /\ UNCHANGED honestVars

\* the peer answers its oldest request; told to disconnect, it hangs up
HonestAnswer ==
    /\ outq # <<>>
    /\ outq' = Tail(outq)
    /\ IF Head(outq).type = "Disconnect"
       THEN /\ peers' = IF HonestPeer \in DOMAIN peers
                        THEN [peers EXCEPT ![HonestPeer].status = "finished"] ELSE peers
            /\ inbox' = inbox
       ELSE /\ \E answer \in HonestAnswers(Head(outq)) : inbox' = inbox \o answer
            /\ peers' = peers
    /\ UNCHANGED <<nodeVars, chainVars, next_nonce, peer_store, banned, outVars, cfVars, dbVars, tasks>>

HonestNext ==
    \/ HonestTick
    \/ HonestRecvVersion \/ HonestRecvHeaders \/ HonestRecvFilterHeaders
    \/ HonestRecvFilter \/ HonestRecvBlock
    \/ HonestTimeout
    \/ HonestAnswer

\* ticks, deliveries, timeouts and the peer's answers are never postponed forever
HonestFairness ==
    /\ WF_vars(HonestTick)
    /\ WF_vars(HonestRecvVersion) /\ WF_vars(HonestRecvHeaders)
    /\ WF_vars(HonestRecvFilterHeaders) /\ WF_vars(HonestRecvFilter)
    /\ WF_vars(HonestRecvBlock)
    /\ WF_vars(HonestTimeout)
    /\ WF_vars(HonestAnswer)

SpecHonest == HonestInit /\ [][HonestNext]_vars /\ HonestFairness

-----------------------------------------------------------------------------
(***************************************************************************)
(* The honest peer is lost while filters are downloaded, and is replaced   *)
(* by another honest peer                                                  *)
(***************************************************************************)

\* the nonce of the connection dialed last
ServingPeer == next_nonce - 1

\* the messages among sends that reach the connection nonce
RequestsTo(nonce, sends) == AsSeq({m[2] : m \in {x \in sends : x[1] = nonce}})

\* an iteration of run up to the select; a peer it dials starts the handshake
ReplacedTick ==
    /\ Tick
    /\ inbox' = IF next_nonce' # next_nonce THEN Append(inbox, HonestVersion) ELSE inbox
    /\ outq' = outq \o RequestsTo(next_nonce' - 1, sent')

\* the message is consumed and the serving peer is sent the response
NotedByServing ==
    /\ inbox' = Tail(inbox)
    /\ outq' = outq \o RequestsTo(ServingPeer, sent')

ReplacedRecvVersion ==
    Delivering("Version") /\ HandleVersion(ServingPeer, Head(inbox)) /\ NotedByServing

ReplacedRecvHeaders ==
    Delivering("Headers") /\ HandleHeaders(ServingPeer, Head(inbox)) /\ NotedByServing

ReplacedRecvFilterHeaders ==
    Delivering("FilterHeaders") /\ HandleCFHeaders(ServingPeer, Head(inbox)) /\ NotedByServing

ReplacedRecvFilter ==
    Delivering("Filter") /\ HandleFilter(ServingPeer, Head(inbox)) /\ NotedByServing

ReplacedRecvBlock == Delivering("Block") /\ HandleBlock(Head(inbox)) /\ NotedByServing

\* the serving peer answers its oldest request; told to disconnect, it hangs up
ReplacedAnswer ==
    /\ outq # <<>>
    /\ outq' = Tail(outq)
    /\ IF Head(outq).type = "Disconnect"
       THEN /\ peers' = IF ServingPeer \in DOMAIN peers
                        THEN [peers EXCEPT ![ServingPeer].status = "finished"] ELSE peers
            /\ inbox' = inbox
       ELSE /\ \E answer \in HonestAnswers(Head(outq)) : inbox' = inbox \o answer
            /\ peers' = peers
    /\ UNCHANGED <<nodeVars, chainVars, next_nonce, peer_store, banned, outVars, cfVars,
                   dbVars, tasks>>

\* the connection to the peer serving filters ends while the filter headers
\* are synced and the filters are not; what was under way with it is lost
ServingPeerLost ==
    /\ state = "FilterHeadersSynced"
    /\ ~is_filters_synced(chain_height, filter_height)
    /\ next_nonce <= MaxDials
    /\ ServingPeer \in DOMAIN peers
    /\ Terminate(ServingPeer)
    /\ inbox' = <<>>
    /\ outq' = <<>>

ReplacedNext ==
    \/ ReplacedTick
    \/ ReplacedRecvVersion \/ ReplacedRecvHeaders \/ ReplacedRecvFilterHeaders
    \/ ReplacedRecvFilter \/ ReplacedRecvBlock
    \/ HonestTimeout
    \/ ReplacedAnswer
    \/ ServingPeerLost

\* ticks, deliveries, timeouts and the peers' answers are never postponed
\* forever; the loss of a connection may happen or not
ReplacedFairness ==
    /\ WF_vars(ReplacedTick)
    /\ WF_vars(ReplacedRecvVersion) /\ WF_vars(ReplacedRecvHeaders)
    /\ WF_vars(ReplacedRecvFilterHeaders) /\ WF_vars(ReplacedRecvFilter)
    /\ WF_vars(ReplacedRecvBlock)
    /\ WF_vars(HonestTimeout)
    /\ WF_vars(ReplacedAnswer)

SpecReplaced == HonestInit /\ [][ReplacedNext]_vars /\ ReplacedFairness

-----------------------------------------------------------------------------
(***************************************************************************)
(* SqliteHeaderDb: the header store, and the chain that is kept in it      *)
(***************************************************************************)

\* the heights of the headers above the anchor
DbHeights == (AnchorHeight + 1)..(AnchorHeight + MaxRows)

\* the anchor heights load is called with
Anchors == {AnchorHeight, AnchorHeight + 1}

\* the values of the fields of a header other than prev_blockhash (version,
\* merkle_root, time, bits and nonce), taken together
Nonces == {0, 1}

\* the hash of the anchor block; a hash is written as the values of the
\* headers it commits to, from the anchor up
AnchorHash == <<>>

\* Header::block_hash: the hash of the fields of the header
block_hash(header) == Append(header.prev_blockhash, header.nonce)

\* BlockHash::to_string: the hexadecimal text of a hash
to_string(hash) == <<"hex", hash>>

\* BlockHash::from_str: the hash of a hexadecimal text, if it is one
from_str(text) == IF Len(text) = 2 /\ text[1] = "hex" THEN Some(text[2]) ELSE None

Ok(value) == [kind |-> "Ok", value |-> value]
Err(err) == [kind |-> "Err", err |-> err]
Panic(message) == [kind |-> "panic", message |-> message]

\* the columns of the row that write and write_over make of a header
Row(header) ==
    [block_hash |-> to_string(block_hash(header)),
     prev_hash |-> to_string(header.prev_blockhash),
     nonce |-> header.nonce]

\* the header load makes of the columns of a row
next_header(row) ==
    [prev_blockhash |-> The(from_str(row.prev_hash)), nonce |-> row.nonce]

\* load keeping the row at the anchor height
skipped_below(h, anchor_height) == h < anchor_height

\* the test of load for the rows that are not part of the chain
skipped(h, anchor_height) == h <= anchor_height

RECURSIVE load_rows(_, _, _, _)
\* the loop of load over the rows from height h on, in the order of the
\* heights, with the headers loaded so far
load_rows(rows, h, anchor_height, headers) ==
    IF h > AnchorHeight + MaxRows THEN Ok(headers)
    ELSE IF h \notin DOMAIN rows \/ skipped(h, anchor_height)
    THEN load_rows(rows, h + 1, anchor_height, headers)
    ELSE IF from_str(rows[h].prev_hash) = None \/ from_str(rows[h].block_hash) = None
    THEN Panic("unwrap on an Err value")
    ELSE IF The(from_str(rows[h].block_hash)) # block_hash(next_header(rows[h]))
    THEN Panic("db corruption. incorrect header hash.")
    ELSE IF /\ headers # EmptyMap
            /\ block_hash(headers[Max(DOMAIN headers)]) # next_header(rows[h]).prev_blockhash
    THEN Panic("db corruption. headers do not link.")
    ELSE load_rows(rows, h + 1, anchor_height, Insert(headers, h, next_header(rows[h])))

\* HeaderStore::load, with a connection that works
load(rows, anchor_height) == load_rows(rows, AnchorHeight + 1, anchor_height, EmptyMap)

RECURSIVE write_rows(_, _, _, _)
\* the loop of write over the entries of header_chain from height h on
write_rows(rows, map, h, max_height) ==
    IF h > AnchorHeight + MaxRows THEN rows
    ELSE write_rows(IF h \in DOMAIN map /\ h >= max_height
                    THEN Insert(rows, h, Row(map[h])) ELSE rows,
                    map, h + 1, max_height)

\* HeaderStore::write, when its transaction commits
write(rows, map) ==
    LET max_height == IF rows = EmptyMap THEN None ELSE Some(Max(DOMAIN rows))
    IN write_rows(rows, map, AnchorHeight + 1,
                  IF max_height = None THEN 0 ELSE The(max_height))

RECURSIVE write_over_rows(_, _, _, _)
\* the loop of write_over over the entries of header_chain from height h on:
\* each entry at or above height is stored in the row of key height
write_over_rows(rows, map, h, from_height) ==
    IF h > AnchorHeight + MaxRows THEN rows
    ELSE write_over_rows(IF h \in DOMAIN map /\ h >= from_height
                         THEN Insert(rows, from_height, Row(map[h])) ELSE rows,
                         map, h + 1, from_height)

\* HeaderStore::write_over, when its transaction commits
write_over(rows, map, from_height) ==
    write_over_rows(rows, map, AnchorHeight + 1, from_height)

\* HeaderStore::height_of, with a connection that works: query_row gives the
\* first row of the result, in no stated order, and QueryReturnedNoRows when
\* the result is empty
height_of(rows, hash) ==
    LET found == {h \in DOMAIN rows : rows[h].block_hash = to_string(hash)}
    IN IF found = {} THEN {Err("LoadError")} ELSE {Ok(Some(h)) : h \in found}

\* the chain in memory, by the values of its headers from the anchor up
NoncesOf(headers) ==
    [i \in 1..Cardinality(DOMAIN headers) |-> headers[AnchorHeight + i].nonce]

RECURSIVE HeaderAt(_, _)
\* the i-th header above the anchor of the chain made of the values ns
HeaderAt(ns, i) ==
    [prev_blockhash |-> IF i = 1 THEN AnchorHash ELSE block_hash(HeaderAt(ns, i - 1)),
     nonce |-> ns[i]]

\* the chain made of the values ns, every header linked to the one below
ChainOf(ns) == [h \in (AnchorHeight + 1)..(AnchorHeight + Len(ns)) |->
                   HeaderAt(ns, h - AnchorHeight)]

\* what a store may hold when the node starts: nothing, one header, or one
\* row whose stored hash is not the hash of its header
StoreContents ==
    LET header == [prev_blockhash |-> AnchorHash, nonce |-> 0]
        other == [prev_blockhash |-> AnchorHash, nonce |-> 1]
    IN {EmptyMap,
        Insert(EmptyMap, AnchorHeight + 1, Row(header)),
        Insert(EmptyMap, AnchorHeight + 1,
               [Row(header) EXCEPT !.block_hash = to_string(block_hash(other))])}

\* the variables a call on the header store leaves alone
dbRest == <<header_chain, merged_queue, block_to_hash, prev_stophash_request,
            quorum_required, ncalls, nodeVars, chainVars, peerVars, outVars, honestVars,
            tasks>>

DbInit ==
    /\ db_headers \in StoreContents
    /\ chain_headers = EmptyMap
    /\ pending = [kind |-> IF db_headers = EmptyMap THEN "none" ELSE "lost"]
    /\ header_chain = <<>> /\ merged_queue = EmptyMap /\ block_to_hash = EmptyMap
    /\ prev_stophash_request = None /\ quorum_required = 1
    /\ call = [op |-> "new"] /\ ret = NoReturn /\ ncalls = 0
    /\ NodeIdle

\* the chain in memory grows by one header
DbExtend ==
    /\ Cardinality(DOMAIN chain_headers) < MaxRows
    /\ \E nonce \in Nonces :
          chain_headers' = ChainOf(Append(NoncesOf(chain_headers), nonce))
    /\ pending' = IF pending.kind = "none"
                  THEN [kind |-> "grown",
                        height |-> AnchorHeight + Cardinality(DOMAIN chain_headers) + 1]
                  ELSE pending
    /\ call' = [op |-> "extend"] /\ ret' = NoReturn
    /\ UNCHANGED <<db_headers, dbRest>>

\* a reorganisation replaces the headers of the chain in memory from a height
\* up by as many other headers
DbReorg ==
    /\ \E fork \in DOMAIN chain_headers :
          /\ chain_headers' =
                ChainOf([NoncesOf(chain_headers) EXCEPT
                            ![fork - AnchorHeight] = 1 - @])
          /\ pending' =
                CASE pending.kind = "none" -> [kind |-> "fork", height |-> fork]
                  [] pending.kind = "grown" ->
                        IF fork < pending.height
                        THEN [kind |-> "fork", height |-> fork] ELSE pending
                  [] pending.kind = "fork" ->
                        [kind |-> "fork",
                         height |-> IF fork < pending.height THEN fork
                                    ELSE pending.height]
                  [] OTHER -> pending
          /\ call' = [op |-> "reorg", height |-> fork]
    /\ ret' = NoReturn
    /\ UNCHANGED <<db_headers, dbRest>>

\* write(&header_chain): the chain in memory is flushed after it grew
DbWrite ==
    /\ \E committed \in BOOLEAN :
          IF committed
          THEN /\ db_headers' = write(db_headers, chain_headers)
               /\ ret' = Ok("unit")
               /\ pending' = IF pending.kind \in {"none", "grown"}
                             THEN [kind |-> "none"] ELSE [kind |-> "lost"]
          ELSE /\ ret' = Err("WriteError")
               /\ UNCHANGED <<db_headers, pending>>
    /\ call' = [op |-> "write"]
    /\ UNCHANGED <<chain_headers, dbRest>>

\* write_over(&header_chain, height): the chain in memory is flushed from the
\* height of a reorganisation
DbWriteOver ==
    /\ \E from_height \in DbHeights, committed \in BOOLEAN :
          /\ IF committed
             THEN /\ db_headers' = write_over(db_headers, chain_headers, from_height)
                  /\ ret' = Ok("unit")
                  /\ pending' = IF pending.kind = "fork" /\ from_height <= pending.height
                                THEN [kind |-> "none"] ELSE [kind |-> "lost"]
             ELSE /\ ret' = Err("WriteError")
                  /\ UNCHANGED <<db_headers, pending>>
          /\ call' = [op |-> "write_over", height |-> from_height]
    /\ UNCHANGED <<chain_headers, dbRest>>

DbLoad ==
    /\ \E anchor_height \in Anchors :
          /\ ret' = load(db_headers, anchor_height)
          /\ call' = [op |-> "load", anchor_height |-> anchor_height]
    /\ UNCHANGED <<dbVars, dbRest>>

DbHeightOf ==
    /\ \E hash \in {AnchorHash} \cup {block_hash(chain_headers[h]) : h \in DOMAIN chain_headers} :
          /\ ret' \in height_of(db_headers, hash)
          /\ call' = [op |-> "height_of", block_hash |-> hash]
    /\ UNCHANGED <<dbVars, dbRest>>

DbNext == DbExtend \/ DbReorg \/ DbWrite \/ DbWriteOver \/ DbLoad \/ DbHeightOf

SpecDb == DbInit /\ [][DbNext]_vars

-----------------------------------------------------------------------------
(***************************************************************************)
(* Dns: the bootstrap from the DNS seeds                                   *)
(***************************************************************************)

Networks == {"Bitcoin", "Testnet", "Signet", "Regtest"}

\* the seed hosts of a network, in the order of its table
Seeds(network) ==
    CASE network = "Bitcoin" -> <<1, 2, 3, 4, 5, 6, 7, 8, 9>>
      [] network = "Testnet" -> <<1, 2, 3, 4>>
      [] network = "Signet" -> <<1, 2>>
      [] network = "Regtest" -> <<>>

\* what getaddrinfo may give for a host: an error, or a number of addresses
Lookups == {None, Some(5), Some(MAX_PEERS + 1)}

\* an inner loop that lets one address more through
push_addrs_late(ip_addrs, host, addrs) ==
    LET under_cap(addr) == addr[2] - 1 <= 256
    IN ip_addrs \o SelectSeq(addrs, under_cap)

\* the inner loop of bootstrap over the addresses of a host: the address at
\* position i is met with count = i - 1
push_addrs(ip_addrs, host, addrs) ==
    LET under_cap(addr) == addr[2] - 1 < 256
    IN ip_addrs \o SelectSeq(addrs, under_cap)

RECURSIVE lookup_seeds(_, _, _)
\* the outer loop of bootstrap over the seeds left
lookup_seeds(ip_addrs, seeds, addrs) ==
    IF seeds = <<>> THEN ip_addrs
    ELSE lookup_seeds(IF addrs[Head(seeds)] = None THEN ip_addrs
                      ELSE push_addrs(ip_addrs, Head(seeds),
                                      [i \in 1..The(addrs[Head(seeds)]) |-> <<Head(seeds), i>>]),
                      Tail(seeds), addrs)

\* Dns::bootstrap
bootstrap(network, addrs) ==
    LET ip_addrs == lookup_seeds(<<>>, Seeds(network), addrs)
    IN IF Len(ip_addrs) < MIN_PEERS THEN Err("NotEnoughPeersError") ELSE Ok(ip_addrs)

\* a bootstrap is asked for a network whose seeds answer as addrs says
DnsInit ==
    /\ header_chain = <<>> /\ merged_queue = EmptyMap /\ block_to_hash = EmptyMap
    /\ prev_stophash_request = None /\ quorum_required = 1
    /\ \E network \in Networks :
          \E addrs \in [{Seeds(network)[i] : i \in 1..Len(Seeds(network))} -> Lookups] :
              call = [op |-> "new", network |-> network, addrs |-> addrs]
    /\ ret = NoReturn /\ ncalls = 0
    /\ NodeIdle
    /\ DbIdle

DnsBootstrap ==
    /\ call.op = "new"
    /\ ret' = bootstrap(call.network, call.addrs)
    /\ call' = [call EXCEPT !.op = "bootstrap"]
    /\ UNCHANGED <<dbVars, dbRest>>

SpecDns == DnsInit /\ [][DnsBootstrap]_vars

-----------------------------------------------------------------------------
(***************************************************************************)
(* The locks of the coordinator: state (an RwLock), chain and peer_man     *)
(* (two Mutexes), as the handlers of Node take and drop their guards       *)
(***************************************************************************)

Take(lock, mode) == [lock |-> lock, mode |-> mode]
Drop(lock) == [lock |-> lock, mode |-> "drop"]

\* the guards of a handler that needs the chain only
chain_only == <<Take("chain", "lock"), Drop("chain")>>

\* the guards of a handler that takes the phase and then the chain, and drops
\* them in the reverse order when it returns
state_then_chain(mode) ==
    <<Take("state", mode), Take("chain", "lock"), Drop("chain"), Drop("state")>>

\* handlers that take the chain before the phase
locks_chain_first(handler) ==
    {<<Take("chain", "lock"), Take("state", "write"), Drop("state"), Drop("chain")>>}

\* The guards a handler of Node takes and drops, in the order of its code,
\* one sequence per path through the handler.
locks(handler) ==
    CASE handler = "advance_state" ->
            \* the arm of TransactionsSynced does not lock the chain
            {state_then_chain("write"), <<Take("state", "write"), Drop("state")>>}
      [] handler = "next_required_peers" ->
            {<<Take("state", "read"), Drop("state")>>}
      [] handler = "handle_version" ->
            \* the return of Disconnect comes before the chain is locked
            {<<Take("state", "read"), Drop("state")>>, state_then_chain("read")}
      [] handler = "handle_new_addrs" ->
            {<<Take("peer_man", "lock"), Drop("peer_man")>>}
      [] handler \in {"handle_headers", "handle_cf_headers", "handle_filter", "add_scripts"} ->
            {chain_only}
      [] handler = "handle_block" ->
            \* the read guard is a temporary: the phase is copied out of it
            {<<Take("state", "read"), Drop("state"), Take("chain", "lock"), Drop("chain")>>}
      [] handler = "pop_block_queue" ->
            {state_then_chain("read")}
      [] handler = "handle_inventory_blocks" ->
            \* the arm of Behind does not lock the chain
            {<<Take("state", "write"), Drop("state")>>, state_then_chain("write")}
      [] handler = "rescan" ->
            {state_then_chain("write")}
      [] handler = "next_peer" ->
            {<<Take("peer_man", "lock"), Drop("peer_man")>>}

Handlers ==
    {"advance_state", "next_required_peers", "handle_version", "handle_new_addrs",
     "handle_headers", "handle_cf_headers", "handle_filter", "handle_block",
     "pop_block_queue", "handle_inventory_blocks", "add_scripts", "rescan", "next_peer"}

\* the guards held after the first at steps of a path
holding(path, at) ==
    {path[i] : i \in {j \in 1..at :
                        /\ path[j].mode # "drop"
                        /\ \A k \in (j + 1)..at : path[k] # Drop(path[j].lock)}}

\* the guards the handlers other than t hold
held_by_others(t) ==
    UNION {holding(tasks[u].path, tasks[u].at) : u \in (DOMAIN tasks) \ {t}}

\* tokio's Mutex and RwLock: a read guard is given while no write guard is out,
\* a write guard or a mutex guard while no guard of the lock is out
granted(step, others) ==
    CASE step.mode = "drop" -> TRUE
      [] step.mode = "read" -> \A h \in others : h.lock = step.lock => h.mode = "read"
      [] OTHER -> \A h \in others : h.lock # step.lock

\* the handler of t has returned (or t has run none yet)
Returned(t) == tasks[t].at = Len(tasks[t].path)

\* the handler of t can make its next step
CanStep(t) ==
    /\ ~Returned(t)
    /\ granted(tasks[t].path[tasks[t].at + 1], held_by_others(t))

lockRest == <<cfVars, nodeVars, chainVars, peerVars, outVars, honestVars, dbVars>>

LockInit ==
    /\ header_chain = <<>> /\ merged_queue = EmptyMap /\ block_to_hash = EmptyMap
    /\ prev_stophash_request = None /\ quorum_required = 1
    /\ call = [op |-> "new"] /\ ret = NoReturn /\ ncalls = 0
    /\ state = "Behind" /\ required_peers = quorum_required /\ white_list = 0
    /\ tx_broadcaster = <<>> /\ pc = "idle" /\ result = None /\ iters = 0
    /\ chain_height = AnchorHeight /\ best_known_height = None
    /\ flushed_height = AnchorHeight /\ filter_height = AnchorHeight
    /\ block_queue = <<>> /\ requested = {} /\ scripts = {}
    /\ peers = EmptyMap /\ next_nonce = 1 /\ peer_store = 0 /\ banned = {}
    /\ sent = {} /\ events = {} /\ outq = <<>> /\ inbox = <<>>
    /\ DbIdle
    /\ tasks = [t \in 1..MaxTasks |-> [handler |-> "none", path |-> <<>>, at |-> 0]]

\* a handler is called on a task that runs none
HandlerCalled ==
    \E t \in DOMAIN tasks :
        /\ Returned(t)
        /\ \E handler \in Handlers :
              \E path \in locks(handler) :
                  tasks' = [tasks EXCEPT ![t] = [handler |-> handler, path |-> path, at |-> 0]]
        /\ UNCHANGED lockRest

\* a handler takes the guard it has been waiting for, or drops a guard
HandlerSteps ==
    \E t \in DOMAIN tasks :
        /\ CanStep(t)
        /\ tasks' = [tasks EXCEPT ![t].at = @ + 1]
        /\ UNCHANGED lockRest

LockNext == HandlerCalled \/ HandlerSteps

SpecLocks == LockInit /\ [][LockNext]_vars

-----------------------------------------------------------------------------
(***************************************************************************)
(* Properties of the filter-header quorum chain (checked under SpecCF)     *)
(***************************************************************************)

\* The staging map as try_merge sees it in the step that makes the call call'.
Staged == Insert(merged_queue, call'.peer_id, call'.cf_headers)

\* The peers of a staging map that sent entry e at (1-based) batch index i.
Senders(staged, i, e) == {p \in DOMAIN staged : i <= Len(staged[p]) /\ staged[p][i] = e}

IsPrefix(s, t) == Len(s) <= Len(t) /\ \A i \in 1..Len(s) : s[i] = t[i]

\* C2: every entry an append commits was sent, at the same batch index, by at
\* least quorum_required distinct staged peers.
C2_CommittedEntriesHaveQuorum ==
    [][(call'.op = "append" /\ header_chain' # header_chain) =>
        \A i \in 1..(Len(header_chain') - Len(header_chain)) :
            Cardinality(Senders(Staged, i, header_chain'[Len(header_chain) + i]))
                >= quorum_required]_vars

\* C3: an append replaces the batch staged for its peer, and while fewer than
\* quorum_required distinct peers are staged it returns AddedToQueue and leaves
\* the committed chain alone; so one peer alone never commits when quorum > 1.
C3_BelowQuorumOnlyStages ==
    [][call'.op = "append" =>
        /\ Cardinality(DOMAIN Staged) < quorum_required =>
              /\ ret' = AddedToQueue
              /\ header_chain' = header_chain
              /\ merged_queue' = Staged
        /\ (quorum_required > 1 /\ DOMAIN merged_queue \subseteq {call'.peer_id}) =>
              /\ header_chain' = header_chain
              /\ DOMAIN merged_queue' = {call'.peer_id}
              /\ merged_queue'[call'.peer_id] = call'.cf_headers]_vars

\* a peer sent a second batch while it was the only staged peer
C3_Witness ==
    /\ call.op = "append"
    /\ ret = AddedToQueue
    /\ quorum_required > 1
    /\ ncalls >= 2
    /\ DOMAIN merged_queue = {call.peer_id}
    /\ Len(merged_queue[call.peer_id]) = 1

\* The 0-based indices at which two staged batches carry different headers.
Disagreements(staged) ==
    {i \in 0..(MaxBatch - 1) :
        \E p, q \in DOMAIN staged :
            /\ i + 1 <= Len(staged[p])
            /\ i + 1 <= Len(staged[q])
            /\ staged[p][i + 1][1] # staged[q][i + 1][1]}

\* C4: when the batches of a staged quorum first disagree at index i, append
\* returns Conflict(anchor.height + committed_len + i + 1) and commits nothing.
C4_ConflictAtFirstDisagreement ==
    [][(/\ call'.op = "append"
        /\ Cardinality(DOMAIN Staged) = quorum_required
        /\ Disagreements(Staged) # {}) =>
            /\ ret' = Conflict(AnchorHeight + Len(header_chain) + Min(Disagreements(Staged)) + 1)
            /\ header_chain' = header_chain]_vars

\* C5: staging is empty right after an append that returned Extended or Conflict.
C5_StagingClearedAfterMerge ==
    (call.op = "append" /\ ret.kind \in {"Extended", "Conflict"}) => merged_queue = EmptyMap

\* C6: the committed sequence only grows by appending: every step keeps the
\* committed pairs where they are, and height() never decreases.
C6_CommittedIsAppendOnly ==
    [][/\ IsPrefix(header_chain, header_chain')
       /\ height(header_chain') >= height(header_chain)
       /\ height(header_chain') = AnchorHeight + Len(header_chain')]_vars

\* a join was made on a chain with committed pairs
C6_Witness ==
    /\ call.op = "join"
    /\ Len(header_chain) >= 1
    /\ block_to_hash # EmptyMap

\* C7: with quorum_required = 1 every append returns Extended, extends the
\* committed sequence by exactly the appended batch and leaves staging empty.
C7_QuorumOneAlwaysExtends ==
    [][(quorum_required = 1 /\ call'.op = "append") =>
        /\ ret' = Extended
        /\ header_chain' = header_chain \o call'.cf_headers
        /\ merged_queue' = EmptyMap]_vars

\* two batches were committed one after the other under a quorum of one
C7_Witness ==
    /\ quorum_required = 1
    /\ call.op = "append"
    /\ ret = Extended
    /\ Len(header_chain) >= 2

-----------------------------------------------------------------------------
(***************************************************************************)
(* Properties of the coordinator (checked under Spec)                      *)
(***************************************************************************)

\* a step of Node::run: a tick or the handling of one message or command
RunStep == pc' # pc

\* C1 as stated: the phase moves forward one phase at a time, and the only move
\* backward is to Behind on a new-inventory message; nothing else, Rescan
\* included, moves the phase to an earlier phase.
C1_OnlyInvMovesPhaseBack ==
    [][/\ Rank(state') > Rank(state) => Rank(state') = Rank(state) + 1
       /\ Rank(state') < Rank(state) =>
             /\ state' = "Behind"
             /\ call'.op = "handle_inventory_blocks"]_vars

\* C1: the phase moves forward one phase at a time and only in advance_state;
\* it moves backward only to Behind on a new-inventory message, or to
\* FilterHeadersSynced on a Rescan command received in FiltersSynced or
\* TransactionsSynced.
C1_PhaseMovesBackOnInvOrRescan ==
    [][/\ Rank(state') > Rank(state) =>
             /\ Rank(state') = Rank(state) + 1
             /\ call'.op = "advance_state"
       /\ Rank(state') < Rank(state) =>
             \/ /\ state' = "Behind"
                /\ call'.op = "handle_inventory_blocks"
             \/ /\ state' = "FilterHeadersSynced"
                /\ state \in {"FiltersSynced", "TransactionsSynced"}
                /\ call'.op = "rescan"]_vars

\* a Rescan command received in TransactionsSynced moved the phase back
C1_Witness ==
    /\ call.op = "rescan"
    /\ call.state = "TransactionsSynced"
    /\ state = "FilterHeadersSynced"
    /\ filter_height = AnchorHeight

\* a staged batch diverges when it carries another header than the recomputed one
Diverging(mq, n) ==
    /\ n \in DOMAIN mq
    /\ \E i \in 1..Len(mq[n]) : mq[n][i][1] # RecomputedFilterHeader

\* C8: when a CFHeaders message produces a Dispute, only peers whose staged
\* batch diverges are sent Disconnect.
C8_DisputeDisconnectsOnlyDiverging ==
    [][(RunStep /\ call'.op = "handle_cf_headers" /\ ret'.kind = "Dispute") =>
        \A n \in DOMAIN peers :
            <<n, Disconnect>> \in sent' => Diverging(merged_queue', n)]_vars

\* C9: a step of run emits Synced exactly when advance_state moves the phase
\* from FiltersSynced to TransactionsSynced, once, with the height of the chain;
\* TransactionsSynced is entered only from FiltersSynced with an empty block queue.
C9_SyncedExactlyOnTransactionsSynced ==
    [][RunStep =>
        LET entering == state # "TransactionsSynced" /\ state' = "TransactionsSynced"
        IN /\ (\E e \in events' : e.type = "Synced") <=> entering
           /\ entering =>
                 /\ state = "FiltersSynced"
                 /\ call'.op = "advance_state"
                 /\ events' = {Synced(chain_height')}
                 /\ block_queue_empty(block_queue)]_vars

\* advance_state moved the phase to TransactionsSynced and emitted Synced
C9_Witness ==
    /\ call.op = "advance_state"
    /\ call.state = "FiltersSynced"
    /\ state = "TransactionsSynced"
    /\ events = {Synced(chain_height)}

-----------------------------------------------------------------------------
(***************************************************************************)
(* Progress with an honest peer (checked under SpecHonest)                 *)
(***************************************************************************)

\* C10: with one honest whitelisted peer and required_peers = 1 the coordinator
\* eventually is in HeadersSynced, in FilterHeadersSynced and in FiltersSynced,
\* and eventually enters TransactionsSynced emitting Synced with a tip at or
\* above the anchor.
C10_HonestPeerLeadsToSynced ==
    /\ <>(state = "HeadersSynced")
    /\ <>(state = "FilterHeadersSynced")
    /\ <>(state = "FiltersSynced")
    /\ <>(/\ state = "TransactionsSynced"
          /\ \E e \in events : e.type = "Synced" /\ e.tip >= AnchorHeight)

\* the coordinator caught up from one block behind the peer and emitted Synced
C10_Witness ==
    /\ required_peers = 1
    /\ state = "TransactionsSynced"
    /\ chain_height = HonestTip
    /\ filter_height = HonestTip
    /\ events = {Synced(HonestTip)}
    /\ outq = <<>> /\ inbox = <<>>

-----------------------------------------------------------------------------
(***************************************************************************)
(* Properties of the message handlers (checked under Spec)                 *)
(***************************************************************************)

InQueue(queue, x) == \E i \in 1..Len(queue) : queue[i] = x

\* C11: a requested block is scanned when it is received: the receipt of a
\* valid block that was requested takes it out of the block queue and out of
\* the requested blocks.
C11_RequestedBlockScannedOnReceipt ==
    [][\A block \in Blocks :
          (Selecting /\ block.valid /\ block.height \in requested /\ HandleBlock(block)) =>
              /\ block.height \notin requested'
              /\ ~InQueue(block_queue', block.height)]_vars

HeadersStep == RunStep /\ call'.op = "handle_headers"

\* C13: an empty Headers message received while the header chain is not synced
\* sends Disconnect to the sending peer only and leaves the phase and the
\* header chain as they were.
C13_EmptyHeadersUnsyncedDisconnects ==
    [][HeadersStep =>
        \A nonce \in DOMAIN peers, headers \in HeadersMessages :
            (/\ headers.n = 0
             /\ ~is_synced(chain_height, best_known_height)
             /\ HandleHeaders(nonce, headers)) =>
                /\ sent' = send_message(peers, nonce, [type |-> "Disconnect"])
                /\ state' = state
                /\ chain_height' = chain_height
                /\ flushed_height' = flushed_height]_vars

\* a live peer was told to disconnect while the headers were not synced
C13_Witness ==
    /\ call.op = "handle_headers"
    /\ ~is_synced(chain_height, best_known_height)
    /\ best_known_height # None
    /\ \E n \in DOMAIN peers : sent = {<<n, Disconnect>>} /\ peers[n].status = "told"

\* C14 as stated: an empty Headers message received while the header chain is
\* synced is answered to the sending peer with GetFilterHeaders.
C14_EmptyHeadersSyncedAsksFilterHeaders ==
    [][HeadersStep =>
        \A nonce \in DOMAIN peers, headers \in HeadersMessages :
            (/\ headers.n = 0
             /\ is_synced(chain_height, best_known_height)
             /\ HandleHeaders(nonce, headers)) =>
                sent' = send_message(peers, nonce,
                            [type |-> "GetFilterHeaders",
                             start |-> height(header_chain) + 1,
                             stop |-> chain_height])]_vars

\* C14: an empty Headers message received while the header chain is synced is
\* answered to the sending peer with GetFilterHeaders when the filter headers
\* are not synced and with nothing when they are; never with Disconnect.
C14_EmptyHeadersSyncedNeverDisconnects ==
    [][HeadersStep =>
        \A nonce \in DOMAIN peers, headers \in HeadersMessages :
            (/\ headers.n = 0
             /\ is_synced(chain_height, best_known_height)
             /\ HandleHeaders(nonce, headers)) =>
                /\ sent' = IF is_cf_headers_synced(chain_height, header_chain) THEN {}
                           ELSE send_message(peers, nonce,
                                    [type |-> "GetFilterHeaders",
                                     start |-> height(header_chain) + 1,
                                     stop |-> chain_height])
                /\ \A m \in sent' : m[2].type # "Disconnect"]_vars

\* a peer was asked for filter headers in answer to a Headers message that
\* left the synced chain as it was
C14_Witness ==
    /\ call.op = "handle_headers"
    /\ is_synced(chain_height, best_known_height)
    /\ ~is_cf_headers_synced(chain_height, header_chain)
    /\ flushed_height = chain_height
    /\ \E n \in DOMAIN peers : \E m \in sent : m[1] = n /\ m[2].type = "GetFilterHeaders"

C16_ValidationErrorDisconnectsAndBans ==
    [][HeadersStep =>
        \A nonce \in DOMAIN peers, headers \in HeadersMessages :
            (headers.err \in HeaderSyncErrors /\ HandleHeaders(nonce, headers)) =>
                /\ sent' = send_message(peers, nonce, [type |-> "Disconnect"])
                /\ headers.err = "CheckpointMismatch" => nonce \in banned']_vars

\* C17: for a CFHeaders message, AddedToQueue sends nothing; ReadyForNext
\* broadcasts to all peers the next GetFilterHeaders while the filter headers
\* are not synced, and GetFilters once they are but the filters are not.
C17_CFHeadersReply ==
    [][(RunStep /\ call'.op = "handle_cf_headers") =>
        /\ ret'.kind = "AddedToQueue" => sent' = {}
        /\ ret'.kind = "ReadyForNext" =>
              sent' = IF ~is_cf_headers_synced(chain_height, header_chain')
                      THEN {<<n, [type |-> "GetFilterHeaders",
                                  start |-> height(header_chain') + 1,
                                  stop |-> chain_height]>> : n \in Live(peers)}
                      ELSE IF ~is_filters_synced(chain_height, filter_height)
                      THEN {<<n, [type |-> "GetFilters", start |-> filter_height + 1]>> :
                               n \in Live(peers)}
                      ELSE {}]_vars

\* a quorum of two committed a batch and both peers were asked for filters
C17_Witness ==
    /\ call.op = "handle_cf_headers"
    /\ ret.kind = "ReadyForNext"
    /\ quorum_required = 2
    /\ Len(header_chain) >= 1
    /\ Cardinality({m[1] : m \in {x \in sent : x[2].type = "GetFilters"}}) = 2

C20_RescanRestartsFilters ==
    [][(RunStep /\ call'.op = "rescan") =>
        IF state \in {"FilterHeadersSynced", "FiltersSynced", "TransactionsSynced"}
        THEN /\ state' = "FilterHeadersSynced"
             /\ filter_height' = AnchorHeight
             /\ sent' = {<<n, [type |-> "GetFilters", start |-> AnchorHeight + 1]>> :
                            n \in Live(peers)}
        ELSE /\ state' = state
             /\ filter_height' = filter_height
             /\ sent' = {}]_vars

\* a Rescan received in FiltersSynced, after a filter was checked, asked a
\* peer for the filters again
C20_Witness ==
    /\ call.op = "rescan"
    /\ call.state = "FiltersSynced"
    /\ state = "FilterHeadersSynced"
    /\ chain_height > AnchorHeight
    /\ filter_height = AnchorHeight
    /\ \E m \in sent : m[2] = [type |-> "GetFilters", start |-> AnchorHeight + 1]

-----------------------------------------------------------------------------
(***************************************************************************)
(* Properties of an iteration of Node::run (checked under Spec)            *)
(***************************************************************************)

\* an iteration of the main loop up to its select, or up to the error that
\* ends run
TickStep == RunStep /\ call'.op = "advance_state"

\* C21: once started, Node::run returns only for a Shutdown command, and
\* returns Ok: no failure of the peers, of the peer store or of the peer
\* discovery makes it return an error.
C21_RunReturnsOnlyOnShutdown ==
    pc = "returned" => /\ call.op = "shutdown"
                       /\ result = Some([ok |-> TRUE, err |-> NoError])

\* the connections an iteration opened
Dialed == DOMAIN peers' \ DOMAIN peers

Failed(err) == result' = Some([ok |-> FALSE, err |-> err])

\* C23: the peer to dial is taken from the white list while it is not empty,
\* and each entry of the white list is used at most once; the peer store is
\* consulted only when the white list is absent or exhausted; the DNS bootstrap
\* is attempted only when the store cannot supply a peer and holds no peer.
C23_PeerSourceOrder ==
    [][/\ white_list' # white_list => TickStep
       /\ TickStep =>
            /\ white_list > 0 =>
                  /\ pc' = "select"
                  /\ peer_store' = peer_store
                  /\ Dialed # {} <=> white_list' = white_list - 1
                  /\ Dialed = {} <=> white_list' = white_list
            /\ white_list = 0 => white_list' = 0
            /\ Failed("LoadError") => white_list = 0
            /\ (Failed("DnsFailure") \/ peer_store' # peer_store) =>
                  white_list = 0 /\ peer_store = 0]_vars

\* the white list gave the first peer and, exhausted, left the second dial to
\* the peer store
C23_Witness ==
    /\ call.op = "advance_state"
    /\ pc = "select"
    /\ white_list = 0
    /\ next_nonce = 3
    /\ peer_store = MaxStored
    /\ peers[2] = [status |-> "live", services |-> {}, height |-> None]
    /\ state = "Behind"

\* the transactions a step sent to peers
Txs(sends) == {m \in sends : m[2] = [type |-> "BroadcastTx"]}

\* C24: a submitted broadcast job is dispatched at most once, and only in an
\* iteration where live peers >= required_peers; at most one job is dispatched
\* per iteration; an AllPeers job is sent to every live peer and a RandomPeer
\* job to exactly one peer; a job stays pending while live peers <
\* required_peers.
C24_JobDispatchedOnceWhenConnected ==
    [][/\ tx_broadcaster' # tx_broadcaster =>
            \/ /\ call'.op = "broadcast"
               /\ \E policy \in Policies : tx_broadcaster' = Append(tx_broadcaster, policy)
            \/ /\ TickStep
               /\ tx_broadcaster # <<>>
               /\ tx_broadcaster' = Tail(tx_broadcaster)
               /\ live(peers') >= required_peers
               /\ Txs(sent') # {}
       /\ (RunStep /\ Txs(sent') # {}) =>
            /\ TickStep
            /\ tx_broadcaster # <<>>
            /\ tx_broadcaster' = Tail(tx_broadcaster)
            /\ IF Head(tx_broadcaster) = "AllPeers"
               THEN {m[1] : m \in Txs(sent')} = Live(peers')
               ELSE \E n \in Live(peers') : {m[1] : m \in Txs(sent')} = {n}
       /\ (TickStep /\ live(peers') < required_peers) =>
            tx_broadcaster' = tx_broadcaster]_vars

\* of two pending jobs the first, an AllPeers job, went to both live peers and
\* the second stayed pending
C24_Witness ==
    /\ call.op = "advance_state"
    /\ pc = "select"
    /\ Len(tx_broadcaster) = 1
    /\ required_peers = 2
    /\ live(peers) = 2
    /\ {m[1] : m \in Txs(sent)} = Live(peers)

\* the block requests a step sent to peers
BlockRequests(sends) == {m \in sends : m[2].type = "GetBlock"}

-----------------------------------------------------------------------------
(***************************************************************************)
(* Properties of the header store (checked under SpecDb)                   *)
(***************************************************************************)

\* C26: for every content of the store and every anchor_height, the map that
\* load(anchor_height) returns has no entry of height <= anchor_height and has
\* every stored row of height > anchor_height.
C26_LoadReturnsRowsAboveAnchor ==
    [][(call'.op = "load" /\ ret'.kind = "Ok") =>
        /\ \A h \in DOMAIN ret'.value : h > call'.anchor_height
        /\ \A h \in DOMAIN db_headers :
              h > call'.anchor_height =>
                 /\ h \in DOMAIN ret'.value
                 /\ ret'.value[h].nonce = db_headers[h].nonce
                 /\ <<"hex", ret'.value[h].prev_blockhash>> = db_headers[h].prev_hash]_vars

\* a store of two rows was loaded above the height of its first row
C26_Witness ==
    /\ call.op = "load"
    /\ call.anchor_height = AnchorHeight + 1
    /\ ret.kind = "Ok"
    /\ DOMAIN db_headers = {AnchorHeight + 1, AnchorHeight + 2}
    /\ DOMAIN ret.value = {AnchorHeight + 2}

\* the stored rows load(anchor_height) does not skip
Loaded(anchor_height) == {h \in DOMAIN db_headers : h > anchor_height}

\* the stored hash of the row at h is not the hash of the header of the row
HashMismatch(h) ==
    db_headers[h].block_hash # to_string(block_hash(next_header(db_headers[h])))

\* the row at h does not link to the loaded row below it
Unlinked(h, anchor_height) ==
    \E g \in Loaded(anchor_height) :
        /\ g < h
        /\ \A k \in Loaded(anchor_height) : k < h => k <= g
        /\ next_header(db_headers[h]).prev_blockhash
              # block_hash(next_header(db_headers[g]))

\* C27: when the recomputed hash of a stored row differs from its stored hash,
\* or two consecutive loaded rows do not link, load reports the failure as a
\* LoadError result (it does not abort) and returns no chain.
C27_CorruptStoreIsLoadError ==
    [][(/\ call'.op = "load"
        /\ \E h \in Loaded(call'.anchor_height) :
              HashMismatch(h) \/ Unlinked(h, call'.anchor_height)) =>
            ret' = [kind |-> "Err", err |-> "LoadError"]]_vars

\* C28: after write_over(map, height) succeeds, for every entry (h, header)
\* of map with h >= height the store holds exactly that header in row h, and
\* the rows of height < height are unchanged.
C28_WriteOverUpsertsFromHeight ==
    [][(call'.op = "write_over" /\ ret'.kind = "Ok") =>
        /\ \A h \in DOMAIN chain_headers :
              h >= call'.height =>
                 /\ h \in DOMAIN db_headers'
                 /\ db_headers'[h] = Row(chain_headers[h])
        /\ \A h \in DOMAIN db_headers :
              h < call'.height =>
                 /\ h \in DOMAIN db_headers'
                 /\ db_headers'[h] = db_headers[h]]_vars

\* C29: after the chain in memory is persisted (by write, or by write_over
\* after a reorganisation) and then loaded with the same anchor, the loaded
\* map equals the chain in memory, also when a reorganisation replaced a
\* suffix that had already been persisted.
C29_PersistedChainLoadsEqual ==
    [][(/\ call'.op = "load"
        /\ call'.anchor_height = AnchorHeight
        /\ pending.kind = "none") =>
            ret' = [kind |-> "Ok", value |-> chain_headers]]_vars

\* C30: height_of(block_hash) returns Ok(Some(h)) when a row with that hash
\* is stored at height h, and Ok(None), not an error, when no stored row has
\* that hash.
C30_HeightOfAbsentIsNone ==
    [][call'.op = "height_of" =>
        LET found == {h \in DOMAIN db_headers :
                         db_headers[h].block_hash = <<"hex", call'.block_hash>>}
        IN IF found = {}
           THEN ret' = [kind |-> "Ok", value |-> None]
           ELSE \E h \in found : ret' = [kind |-> "Ok", value |-> Some(h)]]_vars

-----------------------------------------------------------------------------
(***************************************************************************)
(* Properties of the DNS bootstrap (checked under SpecDns)                 *)
(***************************************************************************)

\* the number of addresses of a host the bootstrap is to keep
Kept(addrs, host) ==
    IF addrs[host] = None THEN 0
    ELSE IF The(addrs[host]) > MAX_PEERS THEN MAX_PEERS ELSE The(addrs[host])

RECURSIVE KeptOfAll(_, _)
\* the number of addresses it is to keep of the hosts 1..n
KeptOfAll(addrs, n) == IF n = 0 THEN 0 ELSE Kept(addrs, n) + KeptOfAll(addrs, n - 1)

\* C31: the DNS bootstrap keeps at most 256 addresses of each seed host and
\* returns NotEnoughPeersError exactly when the number of kept addresses over
\* all the seeds is below 10; otherwise it returns all the kept addresses (so
\* Regtest, which has no seed, always fails).
C31_BootstrapKeepsAndCounts ==
    [][call'.op = "bootstrap" =>
        LET addrs == call'.addrs
            total == KeptOfAll(addrs, Cardinality(DOMAIN addrs))
        IN /\ (ret' = [kind |-> "Err", err |-> "NotEnoughPeersError"]) <=> total < 10
           /\ total >= 10 =>
                 /\ ret'.kind = "Ok"
                 /\ Len(ret'.value) = total
                 /\ \A host \in DOMAIN addrs :
                       {a[2] : a \in {b \in {ret'.value[i] : i \in 1..total} :
                                         b[1] = host}}
                          = 1..Kept(addrs, host)
           /\ call'.network = "Regtest" => ret'.kind = "Err"]_vars

\* two seeds of Signet answered, one of them with more than 256 addresses
C31_Witness ==
    /\ call.op = "bootstrap"
    /\ call.network = "Signet"
    /\ call.addrs[1] = Some(MAX_PEERS + 1)
    /\ call.addrs[2] = Some(5)
    /\ ret.kind = "Ok"
    /\ Len(ret.value) = MAX_PEERS + 5

-----------------------------------------------------------------------------
(***************************************************************************)
(* The reference batch of the commit/dispute step (checked under SpecCF)   *)
(***************************************************************************)

\* C33: for a fixed staging content, the outcome of the commit/dispute step
\* (Extended or Conflict, the conflict height, and the entries appended to
\* the committed sequence) is the same whichever staged peer is picked as the
\* reference batch: an append that reaches the quorum has one outcome only.
C33_OutcomeIndependentOfReference ==
    [][(call'.op = "append" /\ ret' # [kind |-> "AddedToQueue"]) =>
        \A one, other \in append_or_conflict(header_chain, Staged) :
            /\ one.ret = other.ret
            /\ one.header_chain = other.header_chain]_vars

-----------------------------------------------------------------------------
(***************************************************************************)
(* One call of advance_state (checked under Spec)                          *)
(***************************************************************************)

\* C34: a single call of advance_state promotes the phase by at most one step
\* (never skipping a phase), and only when the chain predicate of the phase
\* holds: is_synced for Behind, is_cf_headers_synced for HeadersSynced,
\* is_filters_synced for FilterHeadersSynced, block_queue_empty for
\* FiltersSynced; the headers are flushed to disk on every promotion from
\* Behind to HeadersSynced.
C34_AdvancesOneCheckedStep ==
    [][TickStep =>
        /\ \/ state' = state
           \/ /\ state = "Behind" /\ state' = "HeadersSynced"
              /\ best_known_height # {}
              /\ \A best \in best_known_height : chain_height >= best
              /\ flushed_height' = chain_height
           \/ /\ state = "HeadersSynced" /\ state' = "FilterHeadersSynced"
              /\ AnchorHeight + Len(header_chain) >= chain_height
           \/ /\ state = "FilterHeadersSynced" /\ state' = "FiltersSynced"
              /\ filter_height >= chain_height
           \/ /\ state = "FiltersSynced" /\ state' = "TransactionsSynced"
              /\ block_queue = <<>>
        /\ ~(state = "Behind" /\ state' = "HeadersSynced") => flushed_height' = flushed_height]_vars

\* advance_state promoted Behind to HeadersSynced and flushed headers above
\* the anchor
C34_Witness ==
    /\ call.op = "advance_state"
    /\ call.state = "Behind"
    /\ state = "HeadersSynced"
    /\ flushed_height = chain_height
    /\ chain_height > AnchorHeight

-----------------------------------------------------------------------------
(***************************************************************************)
(* The services of the connected peers (checked under Spec)                *)
(***************************************************************************)

\* C35: in every reachable state whose phase is later than Behind, every peer
\* the coordinator keeps connected (whose Version it handled and to which it
\* has not sent Disconnect) has advertised both the NETWORK and the
\* COMPACT_FILTERS service flag, the peers whose Version was handled while the
\* phase was Behind included.
C35_ConnectedPeersServeFilters ==
    state # "Behind" =>
        \A n \in DOMAIN peers :
            (peers[n].status = "live" /\ peers[n].height # {}) =>
                {"NETWORK", "COMPACT_FILTERS"} \subseteq peers[n].services

-----------------------------------------------------------------------------
(***************************************************************************)
(* The order of the phase lock and the chain lock (checked under SpecLocks) *)
(***************************************************************************)

\* handler t is about to take a lock of which handler u holds a guard that
\* excludes the guard t asks for
WaitsFor(t, u) ==
    LET wanted == tasks[t].path[tasks[t].at + 1]
    IN /\ wanted.mode # "drop"
       /\ \E i \in 1..tasks[u].at :
             /\ tasks[u].path[i].lock = wanted.lock
             /\ tasks[u].path[i].mode # "drop"
             /\ \A k \in (i + 1)..tasks[u].at :
                   tasks[u].path[k] # [lock |-> wanted.lock, mode |-> "drop"]
             /\ ~(tasks[u].path[i].mode = "read" /\ wanted.mode = "read")

\* some handler has not returned and every such handler waits for another
Deadlocked ==
    /\ \E t \in DOMAIN tasks : tasks[t].at < Len(tasks[t].path)
    /\ \A t \in DOMAIN tasks :
          tasks[t].at < Len(tasks[t].path) =>
              \E u \in (DOMAIN tasks) \ {t} : WaitsFor(t, u)

\* C36: every coordinator operation that takes both the phase lock and the
\* chain lock acquires the phase lock first and the chain lock second, and
\* none acquires the phase lock while holding the chain lock, so no
\* interleaving of handlers can deadlock on these two locks.
C36_PhaseLockBeforeChainLock ==
    [][\A t \in DOMAIN tasks' :
          LET path == tasks'[t].path
              taken(lock) == {i \in 1..tasks'[t].at :
                                path[i].lock = lock /\ path[i].mode # "drop"}
              dropped(lock) == {i \in 1..tasks'[t].at :
                                  path[i].lock = lock /\ path[i].mode = "drop"}
          IN \* whenever the phase lock is taken, every chain guard taken
             \* before has been dropped before
             /\ \A s \in taken("state") :
                   \A c \in taken("chain") :
                       c < s => \E d \in dropped("chain") : c < d /\ d < s
             /\ ~Deadlocked']_vars

\* one handler holds the phase lock and waits for the chain lock that another
\* handler holds
C36_Witness ==
    /\ tasks # <<>>
    /\ tasks[1].handler = "pop_block_queue" /\ tasks[1].at = 1
    /\ tasks[2].handler = "handle_headers" /\ tasks[2].at = 1

-----------------------------------------------------------------------------
(***************************************************************************)
(* Filters after the loss of the serving peer (checked under SpecReplaced) *)
(***************************************************************************)

\* the coordinator has handled the Headers message by which the replacement
\* of the lost peer answered GetHeaders
ReplacementAnswered ==
    /\ ServingPeer > HonestPeer
    /\ call.op = "handle_headers"

\* C32: if the peer serving filters disconnects while the filter headers are
\* synced and the filters are not, then, under fairness, once a replacement
\* peer has completed its handshake and answered the coordinator's GetHeaders
\* (with an empty or a non-empty Headers message), a GetFilters request is
\* eventually issued again and the download of the filters eventually
\* completes.
C32_ReplacementResumesFilters ==
    /\ ReplacementAnswered ~> (\E m \in sent : m[2].type = "GetFilters")
    /\ ReplacementAnswered ~> (filter_height >= chain_height)

=============================================================================
